---- MODULE Spec2Model ----
(***************************************************************************)
(* Two-controller waste sorter.                                            *)
(*   Sort Controller   : Arduino/Arduino.ino  (state machine, voting,      *)
(*                       reply parser, actuation)                          *)
(*   Vision Controller : ESPv3Code_copy_20251018033055.ino (camera buffer, *)
(*                       detection filter, reply transmission)             *)
(* Text is a sequence of one-character strings.  A confidence is an        *)
(* integer number of thousandths (0.65 is 650, the 0.01 floor is 10).      *)
(***************************************************************************)
EXTENDS Integers, Sequences, FiniteSets, TLC

VARIABLES
  \* ---- Sort Controller (Arduino.ino globals) ----
  state,               \* SystemState
  votesCan, votesGlass, votesBottle,      \* uint8_t vote counts
  confCan, confGlass, confBottle,         \* accumulated confidences
  deadline,            \* unsigned long, deadline of the pending request
  repositionAttempts,  \* uint8_t
  consecutiveNones,    \* uint8_t
  servo1, servo2,      \* last angle written to each servo
  lcd,                 \* the two lines last shown by updateDisplay
  now,                 \* the last value read from millis()
  parsed,              \* locals of the last pass of STATE_WAIT: buffer, className, confidence
  \* ---- the serial link between the controllers ----
  espRx,               \* bytes waiting in the Sort Controller's receive buffer
  espCmd,              \* INFER lines sent and not yet taken by the Vision Controller
  \* ---- history of the current sort cycle (observation only) ----
  cycRequests,         \* INFER requests sent since the cycle began
  cycAccepted,         \* some reply was accepted by parseResponse in this cycle
  cycTimedOut,         \* the WAIT deadline expired in this cycle
  cycAborted,          \* the cycle ended through an object-disappeared abort
  cycDecided,          \* DECIDE ran in this cycle
  cycSorts,            \* sortToBin calls of this cycle: <<bin, bin shown on the display>>
  \* ---- Vision Controller ----
  imageBuffer,         \* CameraManager::imageBuffer (0 is nullptr)
  g_imageData,         \* global inference image pointer (0 is nullptr)
  heapLive,            \* the image block is currently allocated
  memFault,            \* set of resource faults seen so far
  boxes,               \* the BoundingBox array as runInference left it
  rawBoxes,            \* the raw detections of the last classifier run
  tx2,                 \* lines written to the inference link by the last loop() pass
  txBy,                \* which command of the last loop() pass wrote to the link
  vPath                \* outcome of the last loop() pass

sortVars == <<state, votesCan, votesGlass, votesBottle, confCan, confGlass,
              confBottle, deadline, repositionAttempts, consecutiveNones,
              servo1, servo2, lcd, now, parsed, espRx, espCmd>>
cycVars == <<cycRequests, cycAccepted, cycTimedOut, cycAborted,
             cycDecided, cycSorts>>
visionVars == <<imageBuffer, g_imageData, heapLive, memFault, boxes, rawBoxes,
                tx2, txBy, vPath>>
vars == <<sortVars, cycVars, visionVars>>

(***************************************************************************)
(* Program constants                                                       *)
(***************************************************************************)
S1_HOME == 0
S1_REPOSITION1 == 45
S1_REPOSITION2 == 90
S1_MID == 90
S1_FAR == 180
S2_HOME == 90
S2_RIGHT == 20
S2_LEFT == 160
TIMEOUT_MS == 2500
MAX_VOTES == 3
MAJORITY_VOTES == 2
MIN_CONFIDENCE == 650
MAX_REPOSITIONS == 2
CLASS_MAX == 15
LINE_MAX == 31
CONF_FLOOR == 10
LOOP_DELAY_MS == 10
MIN_BOX_SIZE == 2
NMS_IOU_THRESHOLD == 200
SPATIAL_THRESHOLD == 60
EI_CLASSIFIER_INPUT_WIDTH == 96
EI_CLASSIFIER_INPUT_HEIGHT == 96

(***************************************************************************)
(* Bounds of the model                                                     *)
(***************************************************************************)
MaxPending == 1      \* INFER lines in flight towards the Vision Controller
LinkPending == 2     \* the same, where unanswered requests are told apart
MaxCount == 6        \* history counters saturate here
MaxTally == 3        \* largest vote count drawn for a free tally
MaxBoxes == 3        \* raw detections per frame
PollGaps == 125      \* number of loop() passes one WAIT poll of the model stands for

Uint8(n) == n % 256
\* A 32-bit unsigned value (unsigned long) is kept as two 16-bit halves.
U32(hi, lo) == [hi |-> hi, lo |-> lo]
\* a + n modulo 2^32, for 0 <= n < 2^16
U32Add(a, n) == U32((a.hi + (a.lo + n) \div 65536) % 65536, (a.lo + n) % 65536)
\* a > b, unsigned
U32Gt(a, b) == a.hi > b.hi \/ (a.hi = b.hi /\ a.lo > b.lo)
Min(a, b) == IF a < b THEN a ELSE b
Sat(n) == Min(n + 1, MaxCount)

(***************************************************************************)
(* Text                                                                    *)
(***************************************************************************)
CR == "\r"
LF == "\n"
Digits == <<"0", "1", "2", "3", "4", "5", "6", "7", "8", "9">>
DigitSet == {Digits[i] : i \in 1..10}
UpperSet == {"A", "B", "C", "D", "E", "F", "G", "H", "I", "J", "K", "L", "M",
             "N", "O", "P", "Q", "R", "S", "T", "U", "V", "W", "X", "Y", "Z"}
LowerSet == {"a", "b", "c", "d", "e", "f", "g", "h", "i", "j", "k", "l", "m",
             "n", "o", "p", "q", "r", "s", "t", "u", "v", "w", "x", "y", "z"}
DigitVal(c) == CHOOSE d \in 0..9 : Digits[d + 1] = c

\* the element of a one-element set: {e : x \in {v}} is e with x standing for
\* the value of v, as a local variable assigned once
The(S) == CHOOSE r \in S : TRUE

Take(s, n) == SubSeq(s, 1, Min(n, Len(s)))
Drop(s, n) == SubSeq(s, n + 1, Len(s))
StartsWith(s, p) == Len(s) >= Len(p) /\ SubSeq(s, 1, Len(p)) = p

\* strchr from position `from` on: the index of the first c, 0 when there is none
StrChr(s, c, from) ==
  LET hits == {i \in from..Len(s) : s[i] = c}
  IN IF hits = {} THEN 0 ELSE CHOOSE i \in hits : \A j \in hits : i <= j

\* strstr: the index of the first occurrence of p, 0 when there is none
StrStr(s, p) ==
  LET hits == {i \in 1..(Len(s) - Len(p) + 1) : SubSeq(s, i, i + Len(p) - 1) = p}
  IN IF hits = {} THEN 0 ELSE CHOOSE i \in hits : \A j \in hits : i <= j

\* length of the longest prefix of digits
DigitRun(s) ==
  LET stops == {i \in 1..Len(s) : s[i] \notin DigitSet}
  IN IF stops = {} THEN Len(s) ELSE (CHOOSE i \in stops : \A j \in stops : i <= j) - 1

RECURSIVE DecVal(_)
DecVal(s) == IF s = <<>> THEN 0
             ELSE 10 * DecVal(SubSeq(s, 1, Len(s) - 1)) + DigitVal(s[Len(s)])

\* atof on text made of digits, letters, ':' and '.': the leading decimal
\* number in thousandths (further fraction digits cut), 0 when there is none.
\* Exponents and the words inf/nan are outside the texts of this model.
Atof(s) ==
  The({The({The({The({DecVal(Take(s, n)) * 1000 + DecVal(f3)
                      : f3 \in {Take(Take(frac, DigitRun(frac)) \o <<"0", "0", "0">>, 3)}})
                 : frac \in {IF rest # <<>> /\ rest[1] = "." THEN Drop(rest, 1) ELSE <<>>}})
            : rest \in {Drop(s, n)}})
       : n \in {DigitRun(s)}})

OKTXT == <<"O", "K">>
NONETXT == <<"N", "O", "N", "E">>
ERRTXT == <<"E", "R", "R", ":">>
CAN3 == <<"C", "A", "N", "3">>
GLASS3 == <<"G", "L", "A", "S", "S", "3">>
BOTTLE3 == <<"B", "O", "T", "T", "L", "E", "3">>
Labels == {CAN3, GLASS3, BOTTLE3}

(***************************************************************************)
(* Voting                                                                  *)
(***************************************************************************)
getTotalVotes(vc, vg, vb) == Uint8(vc + vg + vb)

\* hasMajority looking at the can count only
hasMajorityCan(vc, vg, vb) == vc >= MAJORITY_VOTES

\* hasMajority()
hasMajority(vc, vg, vb) ==
  vc >= MAJORITY_VOTES \/ vg >= MAJORITY_VOTES \/ vb >= MAJORITY_VOTES

\* calculateBin with the majority checks in the reverse order
calculateBinReversed(vc, vg, vb, cc, cg, cb) ==
  IF vb >= MAJORITY_VOTES THEN 3
  ELSE IF vg >= MAJORITY_VOTES THEN 2
  ELSE IF vc >= MAJORITY_VOTES THEN 1
  ELSE IF Uint8(vc + vg + vb) = 0 THEN 4
  ELSE LET max1 == IF cg > cc THEN cg ELSE cc
           bin1 == IF cg > cc THEN 2 ELSE 1
           max2 == IF cb > max1 THEN cb ELSE max1
           bin2 == IF cb > max1 THEN 3 ELSE bin1
       IN IF max2 < CONF_FLOOR THEN 4 ELSE bin2

\* calculateBin without the two unknown-bin exits
calculateBinNoUnknown(vc, vg, vb, cc, cg, cb) ==
  IF vc >= MAJORITY_VOTES THEN 1
  ELSE IF vg >= MAJORITY_VOTES THEN 2
  ELSE IF vb >= MAJORITY_VOTES THEN 3
  ELSE LET max1 == IF cg > cc THEN cg ELSE cc
           bin1 == IF cg > cc THEN 2 ELSE 1
           max2 == IF cb > max1 THEN cb ELSE max1
           bin2 == IF cb > max1 THEN 3 ELSE bin1
       IN bin2

\* calculateBin with >= in the confidence comparisons: the later class wins a tie
calculateBinLateTie(vc, vg, vb, cc, cg, cb) ==
  IF vc >= MAJORITY_VOTES THEN 1
  ELSE IF vg >= MAJORITY_VOTES THEN 2
  ELSE IF vb >= MAJORITY_VOTES THEN 3
  ELSE IF Uint8(vc + vg + vb) = 0 THEN 4
  ELSE LET max1 == IF cg >= cc THEN cg ELSE cc
           bin1 == IF cg >= cc THEN 2 ELSE 1
           max2 == IF cb >= max1 THEN cb ELSE max1
           bin2 == IF cb >= max1 THEN 3 ELSE bin1
       IN IF max2 < CONF_FLOOR THEN 4 ELSE bin2

\* calculateBin with the majority threshold one vote too low
calculateBinOneVote(vc, vg, vb, cc, cg, cb) ==
  IF vc >= MAJORITY_VOTES - 1 THEN 1
  ELSE IF vg >= MAJORITY_VOTES - 1 THEN 2
  ELSE IF vb >= MAJORITY_VOTES - 1 THEN 3
  ELSE IF Uint8(vc + vg + vb) = 0 THEN 4
  ELSE LET max1 == IF cg > cc THEN cg ELSE cc
           bin1 == IF cg > cc THEN 2 ELSE 1
           max2 == IF cb > max1 THEN cb ELSE max1
           bin2 == IF cb > max1 THEN 3 ELSE bin1
       IN IF max2 < CONF_FLOOR THEN 4 ELSE bin2

\* calculateBin()
calculateBin(vc, vg, vb, cc, cg, cb) ==
  IF vc >= MAJORITY_VOTES THEN 1
  ELSE IF vg >= MAJORITY_VOTES THEN 2
  ELSE IF vb >= MAJORITY_VOTES THEN 3
  ELSE IF getTotalVotes(vc, vg, vb) = 0 THEN 4
  ELSE LET max1 == IF cg > cc THEN cg ELSE cc
           bin1 == IF cg > cc THEN 2 ELSE 1
           max2 == IF cb > max1 THEN cb ELSE max1
           bin2 == IF cb > max1 THEN 3 ELSE bin1
       IN IF max2 < CONF_FLOOR THEN 4 ELSE bin2

Bin == calculateBin(votesCan, votesGlass, votesBottle, confCan, confGlass, confBottle)

\* resetVotes clearing the two counters of the non-detection handling only
resetVotesKeepTally ==
  /\ UNCHANGED <<votesCan, votesGlass, votesBottle, confCan, confGlass, confBottle>>
  /\ repositionAttempts' = 0
  /\ consecutiveNones' = 0

\* resetVotes leaving the two counters of the non-detection handling alone
resetVotesTallyOnly ==
  /\ votesCan' = 0 /\ votesGlass' = 0 /\ votesBottle' = 0
  /\ confCan' = 0 /\ confGlass' = 0 /\ confBottle' = 0
  /\ UNCHANGED <<repositionAttempts, consecutiveNones>>

\* resetVotes()
resetVotes ==
  /\ votesCan' = 0 /\ votesGlass' = 0 /\ votesBottle' = 0
  /\ confCan' = 0 /\ confGlass' = 0 /\ confBottle' = 0
  /\ repositionAttempts' = 0
  /\ consecutiveNones' = 0

zeroTally ==
  /\ votesCan' = 0 /\ votesGlass' = 0 /\ votesBottle' = 0
  /\ confCan' = 0 /\ confGlass' = 0 /\ confBottle' = 0

recordVote(className, confidence) ==
  /\ votesCan' = IF className = CAN3 THEN Uint8(votesCan + 1) ELSE votesCan
  /\ confCan' = IF className = CAN3 THEN confCan + confidence ELSE confCan
  /\ votesGlass' = IF className = GLASS3 THEN Uint8(votesGlass + 1) ELSE votesGlass
  /\ confGlass' = IF className = GLASS3 THEN confGlass + confidence ELSE confGlass
  /\ votesBottle' = IF className = BOTTLE3 THEN Uint8(votesBottle + 1) ELSE votesBottle
  /\ confBottle' = IF className = BOTTLE3 THEN confBottle + confidence ELSE confBottle
  /\ consecutiveNones' = 0

(***************************************************************************)
(* Reply parser                                                            *)
(***************************************************************************)
Safe(c) == c \in DigitSet \/ c \in UpperSet \/ c \in LowerSet \/ c = ":" \/ c = "."

\* The read loop of WAIT with no limit on the characters stored
RECURSIVE ReadLoopNoLimit(_, _)
ReadLoopNoLimit(rx, buffer) ==
  IF rx = <<>> THEN [buffer |-> buffer, rest |-> <<>>]
  ELSE IF Head(rx) = LF \/ Head(rx) = CR THEN [buffer |-> buffer, rest |-> Tail(rx)]
  ELSE IF Safe(Head(rx))
       THEN ReadLoopNoLimit(Tail(rx), Append(buffer, Head(rx)))
       ELSE ReadLoopNoLimit(Tail(rx), buffer)

\* The read loop of WAIT, byte by byte: rx holds the bytes still to arrive and
\* buffer the characters stored so far (idx is Len(buffer)).  The loop ends at
\* a terminator, or when no byte is left and the 200 ms run out.
RECURSIVE ReadLoop(_, _)
ReadLoop(rx, buffer) ==
  IF rx = <<>> THEN [buffer |-> buffer, rest |-> <<>>]
  ELSE IF Head(rx) = LF \/ Head(rx) = CR THEN [buffer |-> buffer, rest |-> Tail(rx)]
  ELSE IF Safe(Head(rx))
       THEN IF Len(buffer) < LINE_MAX
            THEN ReadLoop(Tail(rx), Append(buffer, Head(rx)))
            ELSE ReadLoop(Tail(rx), buffer)
       ELSE ReadLoop(Tail(rx), buffer)

\* The read loop of WAIT on the bytes rx of the receive buffer: the bytes up
\* to the first terminator are taken out of rx, the safe ones among them are
\* stored, at most LINE_MAX of them.
ReadLine(rx) == ReadLoop(rx, <<>>)

NoDetection == [ok |-> FALSE, class |-> <<>>, conf |-> 0]

\* the locals of STATE_WAIT outside a pass that parses a line: nothing in them
Unparsed == [buffer |-> <<>>, ok |-> FALSE, class |-> <<>>, conf |-> 0]
\* the locals of STATE_WAIT after parseResponse(buffer, className, &confidence)
Locals(buffer, reply) ==
  [buffer |-> buffer, ok |-> reply.ok, class |-> reply.class, conf |-> reply.conf]

\* parseResponse without the NONE and ERR: prefix checks
parseResponseNoPrefix(buffer) ==
  IF buffer = <<>> THEN NoDetection
  ELSE
    The({IF okPtr = 0 THEN NoDetection
         ELSE
           The({IF colonPtr = 0 THEN NoDetection
                ELSE
                  The({IF secondColonPtr = 0 THEN NoDetection
                       ELSE
                         The({[ok |-> outConf >= MIN_CONFIDENCE,
                               class |-> Take(SubSeq(buffer, colonPtr + 1, secondColonPtr - 1),
                                              CLASS_MAX),
                               conf |-> outConf]
                              : outConf \in {Atof(Drop(buffer, secondColonPtr))}})
                       : secondColonPtr \in {StrChr(buffer, ":", colonPtr + 1)}})
                : colonPtr \in {StrChr(buffer, ":", okPtr + 2)}})
         : okPtr \in {StrStr(buffer, OKTXT)}})

\* parseResponse without the MIN_CONFIDENCE test on the confidence read
parseResponseAnyConf(buffer) ==
  IF buffer = <<>> THEN NoDetection
  ELSE IF StartsWith(buffer, NONETXT) THEN NoDetection
  ELSE IF StartsWith(buffer, ERRTXT) THEN NoDetection
  ELSE
    The({IF okPtr = 0 THEN NoDetection
         ELSE
           The({IF colonPtr = 0 THEN NoDetection
                ELSE
                  The({IF secondColonPtr = 0 THEN NoDetection
                       ELSE
                         The({[ok |-> TRUE,
                               class |-> Take(SubSeq(buffer, colonPtr + 1, secondColonPtr - 1),
                                              CLASS_MAX),
                               conf |-> outConf]
                              : outConf \in {Atof(Drop(buffer, secondColonPtr))}})
                       : secondColonPtr \in {StrChr(buffer, ":", colonPtr + 1)}})
                : colonPtr \in {StrChr(buffer, ":", okPtr + 2)}})
         : okPtr \in {StrStr(buffer, OKTXT)}})

\* parseResponse accepting only confidences above MIN_CONFIDENCE
parseResponseStrict(buffer) ==
  IF buffer = <<>> THEN NoDetection
  ELSE IF StartsWith(buffer, NONETXT) THEN NoDetection
  ELSE IF StartsWith(buffer, ERRTXT) THEN NoDetection
  ELSE
    The({IF okPtr = 0 THEN NoDetection
         ELSE
           The({IF colonPtr = 0 THEN NoDetection
                ELSE
                  The({IF secondColonPtr = 0 THEN NoDetection
                       ELSE
                         The({[ok |-> outConf > MIN_CONFIDENCE,
                               class |-> Take(SubSeq(buffer, colonPtr + 1, secondColonPtr - 1),
                                              CLASS_MAX),
                               conf |-> outConf]
                              : outConf \in {Atof(Drop(buffer, secondColonPtr))}})
                       : secondColonPtr \in {StrChr(buffer, ":", colonPtr + 1)}})
                : colonPtr \in {StrChr(buffer, ":", okPtr + 2)}})
         : okPtr \in {StrStr(buffer, OKTXT)}})

\* parseResponse(resp, outLabel, outConf)
parseResponse(buffer) ==
  IF buffer = <<>> THEN NoDetection
  ELSE IF StartsWith(buffer, NONETXT) THEN NoDetection
  ELSE IF StartsWith(buffer, ERRTXT) THEN NoDetection
  ELSE
    The({IF okPtr = 0 THEN NoDetection
         ELSE
           The({IF colonPtr = 0 THEN NoDetection
                ELSE
                  The({IF secondColonPtr = 0 THEN NoDetection
                       ELSE
                         The({[ok |-> outConf >= MIN_CONFIDENCE,
                               class |-> Take(SubSeq(buffer, colonPtr + 1, secondColonPtr - 1),
                                              CLASS_MAX),
                               conf |-> outConf]
                              : outConf \in {Atof(Drop(buffer, secondColonPtr))}})
                       : secondColonPtr \in {StrChr(buffer, ":", colonPtr + 1)}})
                : colonPtr \in {StrChr(buffer, ":", okPtr + 2)}})
         : okPtr \in {StrStr(buffer, OKTXT)}})

(***************************************************************************)
(* Reply lines of the Vision Controller (runInference, loop)               *)
(***************************************************************************)
RECURSIVE IntText(_)
IntText(n) == IF n < 10 THEN <<Digits[n + 1]>>
              ELSE IntText(n \div 10) \o <<Digits[(n % 10) + 1]>>

\* "%.2f" of a confidence given in thousandths
Fmt2(conf) ==
  LET h == (conf + 5) \div 10
  IN IntText(h \div 100) \o <<".", Digits[((h \div 10) % 10) + 1], Digits[(h % 10) + 1]>>

\* "%.1f" of a confidence given in thousandths
Fmt1(conf) ==
  LET t == (conf + 50) \div 100
  IN IntText(t \div 10) \o <<".", Digits[(t % 10) + 1]>>

\* the reply formatted with one decimal
FormatOK1(label, conf) == Take(OKTXT \o <<":">> \o label \o <<":">> \o Fmt1(conf), 31)

\* snprintf(response, 32, "OK:%s:%.2f", label, confidence)
FormatOK(label, conf) == Take(OKTXT \o <<":">> \o label \o <<":">> \o Fmt2(conf), 31)

Println(text) == text \o <<CR, LF>>

ERR_CAPTURE == ERRTXT \o <<"C", "A", "P", "T", "U", "R", "E", "_", "F", "A", "I", "L", "E", "D">>
ERR_NULL == ERRTXT \o <<"N", "U", "L", "L", "_", "I", "M", "A", "G", "E">>
ERR_INFER == ERRTXT \o <<"I", "N", "F", "E", "R", "E", "N", "C", "E", "_", "F", "A", "I", "L", "E", "D">>

(***************************************************************************)
(* What the link can deliver to the Sort Controller for one request: a     *)
(* reply line as the Vision Controller sends it, or a line damaged on the  *)
(* wire (stray bytes, lost bytes, cut transmission).                       *)
(***************************************************************************)
SentLines ==
  {Println(FormatOK(CAN3, 910)), Println(FormatOK(GLASS3, 700)),
   Println(FormatOK(GLASS3, 950)), Println(FormatOK(BOTTLE3, 800)),
   Println(NONETXT), Println(ERR_CAPTURE)}

DamagedLines ==
  {Println(<<"x", "x">> \o FormatOK(<<"C", "A", "N">>, 900)),  \* stray bytes, a label byte lost
   Println(FormatOK(CAN3, 500)),                               \* below MIN_CONFIDENCE
   <<"O", "K", ":", "G", "L", "A">>,                           \* cut before the second colon
   Println(<<"#", "~">>),                                      \* noise only
   <<LF>>}                                                     \* a bare terminator

LinkLines == SentLines \cup DamagedLines

(***************************************************************************)
(* Actuation and display                                                   *)
(***************************************************************************)
\* performDrop: the writes to servo 2
performDrop(isRight) == IF isRight THEN <<S2_RIGHT, S2_HOME>> ELSE <<S2_LEFT, S2_HOME>>

\* sortToBin without the last moveServo1(S1_HOME) of the default case
sortToBinStaysOut(bin) ==
  [s1 |-> <<S1_HOME>> \o
          (CASE bin = 1 -> <<S1_HOME, S1_HOME>>
             [] bin = 2 -> <<S1_MID, S1_HOME>>
             [] bin = 3 -> <<S1_FAR, S1_HOME>>
             [] OTHER -> <<S1_MID>>),
   s2 |-> performDrop(bin \in {1, 2, 3})]

\* sortToBin: the writes to servo 1 and to servo 2, in program order
sortToBin(bin) ==
  [s1 |-> <<S1_HOME>> \o
          (CASE bin = 1 -> <<S1_HOME, S1_HOME>>
             [] bin = 2 -> <<S1_MID, S1_HOME>>
             [] bin = 3 -> <<S1_FAR, S1_HOME>>
             [] OTHER -> <<S1_MID, S1_HOME>>),
   s2 |-> performDrop(bin \in {1, 2, 3})]

Last(s) == s[Len(s)]

\* the display after DECIDE: "Bin <n>" and the class name
BinDisplay(bin) ==
  <<"Bin " \o ToString(bin),
    CASE bin = 1 -> "CAN" [] bin = 2 -> "GLASS" [] bin = 3 -> "BOTTLE" [] OTHER -> "MIXED">>

\* showVotes: "Voting..." and the three counts
VotesDisplay(vc, vg, vb) ==
  <<"Voting...", "C:" \o ToString(vc) \o " G:" \o ToString(vg) \o " B:" \o ToString(vb)>>

\* the bin a display text announces, 0 when it announces none
ShownBin(text) ==
  IF text[2] = "-> Bin 4" THEN 4
  ELSE IF \E b \in 1..4 : text = BinDisplay(b)
       THEN CHOOSE b \in 1..4 : text = BinDisplay(b)
       ELSE 0

(***************************************************************************)
(* Sort Controller: one action per state of runStateMachine.  An action is *)
(* one pass of loop().  isObjectPresent() is an input of the pass.         *)
(***************************************************************************)
\* millis() at the moment a request is sent
RequestTimes == {U32(0, 4100), U32(9, 10176)}

\* millis() as read by a WAIT pass: PollGaps passes of loop() after `now`
PollTime == U32Add(now, PollGaps * LOOP_DELAY_MS)

NewCycle ==
  /\ cycRequests' = 0 /\ cycAccepted' = FALSE
  /\ cycTimedOut' = FALSE /\ cycAborted' = FALSE /\ cycDecided' = FALSE
  /\ cycSorts' = <<>>

Idle ==
  /\ UNCHANGED visionVars
  /\ parsed' = Unparsed
  /\ state = "IDLE"
  /\ lcd' = <<"Ready", "">>
  /\ \E present \in BOOLEAN :
       IF present
       THEN state' = "DETECT" /\ NewCycle
       ELSE state' = state /\ UNCHANGED cycVars
  /\ UNCHANGED <<votesCan, votesGlass, votesBottle, confCan, confGlass, confBottle,
                 deadline, repositionAttempts, consecutiveNones, servo1, servo2,
                 now, espRx, espCmd>>

Detect ==
  /\ UNCHANGED visionVars
  /\ parsed' = Unparsed
  /\ state = "DETECT"
  /\ lcd' = <<"Detecting", "Object present">>
  /\ \E present \in BOOLEAN :
       IF present
       THEN /\ resetVotes
            /\ servo1' = S1_HOME
            /\ state' = "REQUEST"
            /\ UNCHANGED cycAborted
       ELSE /\ state' = "IDLE"
            /\ cycAborted' = TRUE
            /\ UNCHANGED <<votesCan, votesGlass, votesBottle, confCan, confGlass,
                           confBottle, repositionAttempts, consecutiveNones, servo1>>
  /\ UNCHANGED <<deadline, servo2, now, espRx, espCmd>>
  /\ UNCHANGED <<cycRequests, cycAccepted, cycTimedOut, cycDecided, cycSorts>>

\* requestInference: flush the receive buffer, send INFER, set the deadline
requestInference(t, pending) ==
  /\ espRx' = <<>>
  /\ espCmd' = Min(espCmd + 1, pending)
  /\ now' = t
  /\ deadline' = U32Add(t, TIMEOUT_MS)

\* The REQUEST state, with millis() read from the set `times` and at most
\* `pending` INFER lines counted as unanswered.
RequestAt(times, pending) ==
  /\ UNCHANGED visionVars
  /\ parsed' = Unparsed
  /\ state = "REQUEST"
  /\ lcd' = <<"Requesting", "Inference...">>
  /\ \E t \in times : requestInference(t, pending)
  /\ state' = "WAIT"
  /\ cycRequests' = Sat(cycRequests)
  /\ UNCHANGED <<votesCan, votesGlass, votesBottle, confCan, confGlass, confBottle,
                 repositionAttempts, consecutiveNones, servo1, servo2>>
  /\ UNCHANGED <<cycAccepted, cycTimedOut, cycAborted, cycDecided, cycSorts>>

Request == RequestAt(RequestTimes, MaxPending)

tallyVars == <<votesCan, votesGlass, votesBottle, confCan, confGlass, confBottle>>

\* STATE_WAIT, timeout check
WaitTimeout ==
  /\ UNCHANGED visionVars
  /\ parsed' = Unparsed
  /\ state = "WAIT"
  /\ U32Gt(PollTime, deadline)
  /\ now' = PollTime
  /\ state' = "ERROR"
  /\ cycTimedOut' = TRUE
  /\ UNCHANGED <<tallyVars, deadline, repositionAttempts, consecutiveNones,
                 servo1, servo2, lcd, espRx, espCmd>>
  /\ UNCHANGED <<cycRequests, cycAccepted, cycAborted, cycDecided, cycSorts>>

\* STATE_WAIT, nothing available on the link
WaitQuiet ==
  /\ UNCHANGED visionVars
  /\ parsed' = Unparsed
  /\ state = "WAIT"
  /\ ~(U32Gt(PollTime, deadline))
  /\ espRx = <<>>
  /\ now' = PollTime
  /\ UNCHANGED <<state, tallyVars, deadline, repositionAttempts, consecutiveNones,
                 servo1, servo2, lcd, espRx, espCmd>>
  /\ UNCHANGED cycVars

\* STATE_WAIT, a line was read and nothing of it was stored: ignored
WaitEmpty ==
  /\ UNCHANGED visionVars
  /\ parsed' = Unparsed
  /\ state = "WAIT"
  /\ ~(U32Gt(PollTime, deadline))
  /\ espRx # <<>>
  /\ \E line \in {ReadLine(espRx)} :
       /\ line.buffer = <<>>
       /\ espRx' = line.rest
  /\ now' = PollTime
  /\ UNCHANGED <<state, tallyVars, deadline, repositionAttempts, consecutiveNones,
                 servo1, servo2, lcd, espCmd>>
  /\ UNCHANGED cycVars

\* STATE_WAIT, detection branch, with > for >= in the vote cap of the
\* decision check
WaitVoteLateCap ==
  /\ UNCHANGED visionVars
  /\ state = "WAIT"
  /\ ~(U32Gt(PollTime, deadline))
  /\ espRx # <<>>
  /\ \E line \in {ReadLine(espRx)} :
       /\ line.buffer # <<>>
       /\ \E reply \in {parseResponse(line.buffer)} :
            /\ reply.ok
            /\ espRx' = line.rest
            /\ recordVote(reply.class, reply.conf)
            /\ parsed' = Locals(line.buffer, reply)
  /\ now' = PollTime
  /\ lcd' = VotesDisplay(votesCan', votesGlass', votesBottle')
  /\ state' = IF \/ hasMajority(votesCan', votesGlass', votesBottle')
                 \/ getTotalVotes(votesCan', votesGlass', votesBottle') > MAX_VOTES
              THEN "DECIDE" ELSE "REQUEST"
  /\ cycAccepted' = TRUE
  /\ UNCHANGED <<deadline, repositionAttempts, servo1, servo2, espCmd>>
  /\ UNCHANGED <<cycRequests, cycTimedOut, cycAborted, cycDecided, cycSorts>>

\* STATE_WAIT, detection branch, with repositionAttempts cleared by every vote
WaitVoteNewAttempts ==
  /\ UNCHANGED visionVars
  /\ state = "WAIT"
  /\ ~(U32Gt(PollTime, deadline))
  /\ espRx # <<>>
  /\ \E line \in {ReadLine(espRx)} :
       /\ line.buffer # <<>>
       /\ \E reply \in {parseResponse(line.buffer)} :
            /\ reply.ok
            /\ espRx' = line.rest
            /\ recordVote(reply.class, reply.conf)
            /\ parsed' = Locals(line.buffer, reply)
  /\ now' = PollTime
  /\ lcd' = VotesDisplay(votesCan', votesGlass', votesBottle')
  /\ state' = IF \/ hasMajority(votesCan', votesGlass', votesBottle')
                 \/ getTotalVotes(votesCan', votesGlass', votesBottle') >= MAX_VOTES
              THEN "DECIDE" ELSE "REQUEST"
  /\ cycAccepted' = TRUE
  /\ repositionAttempts' = 0
  /\ UNCHANGED <<deadline, servo1, servo2, espCmd>>
  /\ UNCHANGED <<cycRequests, cycTimedOut, cycAborted, cycDecided, cycSorts>>

\* STATE_WAIT, detection branch: vote, display, decision check
WaitVote ==
  /\ UNCHANGED visionVars
  /\ state = "WAIT"
  /\ ~(U32Gt(PollTime, deadline))
  /\ espRx # <<>>
  /\ \E line \in {ReadLine(espRx)} :
       /\ line.buffer # <<>>
       /\ \E reply \in {parseResponse(line.buffer)} :
            /\ reply.ok
            /\ espRx' = line.rest
            /\ recordVote(reply.class, reply.conf)
            /\ parsed' = Locals(line.buffer, reply)
  /\ now' = PollTime
  /\ lcd' = VotesDisplay(votesCan', votesGlass', votesBottle')
  /\ state' = IF \/ hasMajority(votesCan', votesGlass', votesBottle')
                 \/ getTotalVotes(votesCan', votesGlass', votesBottle') >= MAX_VOTES
              THEN "DECIDE" ELSE "REQUEST"
  /\ cycAccepted' = TRUE
  /\ UNCHANGED <<deadline, repositionAttempts, servo1, servo2, espCmd>>
  /\ UNCHANGED <<cycRequests, cycTimedOut, cycAborted, cycDecided, cycSorts>>

\* the give-up branch leaving the tally as it stands
GiveUpKeepTally ==
  /\ UNCHANGED tallyVars
  /\ lcd' = <<"Can't detect", "-> Bin 4">>
  /\ state' = "DECIDE"

\* the give-up branch: the tally is zeroed so that calculateBin returns 4
GiveUp ==
  /\ zeroTally
  /\ lcd' = <<"Can't detect", "-> Bin 4">>
  /\ state' = "DECIDE"

\* STATE_WAIT, no-detection branch, giving up when the object is gone
WaitNoneGoneGivesUp ==
  /\ UNCHANGED visionVars
  /\ state = "WAIT"
  /\ ~(U32Gt(PollTime, deadline))
  /\ espRx # <<>>
  /\ \E line \in {ReadLine(espRx)} :
       /\ line.buffer # <<>>
       /\ \E reply \in {parseResponse(line.buffer)} :
            /\ ~reply.ok
            /\ espRx' = line.rest
            /\ parsed' = Locals(line.buffer, reply)
  /\ now' = PollTime
  /\ consecutiveNones' = Uint8(consecutiveNones + 1)
  /\ IF repositionAttempts > 0
     THEN /\ IF repositionAttempts < MAX_REPOSITIONS
             THEN state' = "REPOSITION" /\ UNCHANGED <<tallyVars, lcd>>
             ELSE GiveUp
          /\ UNCHANGED cycAborted
     ELSE \E present \in BOOLEAN :
            IF present
            THEN /\ IF repositionAttempts < MAX_REPOSITIONS
                    THEN state' = "REPOSITION" /\ UNCHANGED <<tallyVars, lcd>>
                    ELSE GiveUp
                 /\ UNCHANGED cycAborted
            ELSE /\ GiveUp
                 /\ UNCHANGED cycAborted
  /\ UNCHANGED <<deadline, repositionAttempts, servo1, servo2, espCmd>>
  /\ UNCHANGED <<cycRequests, cycAccepted, cycTimedOut, cycDecided, cycSorts>>

\* STATE_WAIT, no-detection branch, with <= for < in the test of
\* repositionAttempts against MAX_REPOSITIONS
WaitNoneOneMore ==
  /\ UNCHANGED visionVars
  /\ state = "WAIT"
  /\ ~(U32Gt(PollTime, deadline))
  /\ espRx # <<>>
  /\ \E line \in {ReadLine(espRx)} :
       /\ line.buffer # <<>>
       /\ \E reply \in {parseResponse(line.buffer)} :
            /\ ~reply.ok
            /\ espRx' = line.rest
            /\ parsed' = Locals(line.buffer, reply)
  /\ now' = PollTime
  /\ consecutiveNones' = Uint8(consecutiveNones + 1)
  /\ IF repositionAttempts > 0
     THEN /\ IF repositionAttempts <= MAX_REPOSITIONS
             THEN state' = "REPOSITION" /\ UNCHANGED <<tallyVars, lcd>>
             ELSE GiveUp
          /\ UNCHANGED cycAborted
     ELSE \E present \in BOOLEAN :
            IF present
            THEN /\ IF repositionAttempts <= MAX_REPOSITIONS
                    THEN state' = "REPOSITION" /\ UNCHANGED <<tallyVars, lcd>>
                    ELSE GiveUp
                 /\ UNCHANGED cycAborted
            ELSE /\ state' = "IDLE"
                 /\ cycAborted' = TRUE
                 /\ UNCHANGED <<tallyVars, lcd>>
  /\ UNCHANGED <<deadline, repositionAttempts, servo1, servo2, espCmd>>
  /\ UNCHANGED <<cycRequests, cycAccepted, cycTimedOut, cycDecided, cycSorts>>

\* STATE_WAIT, no-detection branch, checking for the object at every
\* non-detection, also after a reposition
WaitNoneAlwaysRechecks ==
  /\ UNCHANGED visionVars
  /\ state = "WAIT"
  /\ ~(U32Gt(PollTime, deadline))
  /\ espRx # <<>>
  /\ \E line \in {ReadLine(espRx)} :
       /\ line.buffer # <<>>
       /\ \E reply \in {parseResponse(line.buffer)} :
            /\ ~reply.ok
            /\ espRx' = line.rest
            /\ parsed' = Locals(line.buffer, reply)
  /\ now' = PollTime
  /\ consecutiveNones' = Uint8(consecutiveNones + 1)
  /\ \E present \in BOOLEAN :
       IF present
       THEN /\ IF repositionAttempts < MAX_REPOSITIONS
               THEN state' = "REPOSITION" /\ UNCHANGED <<tallyVars, lcd>>
               ELSE GiveUp
            /\ UNCHANGED cycAborted
       ELSE /\ state' = "IDLE"
            /\ cycAborted' = TRUE
            /\ UNCHANGED <<tallyVars, lcd>>
  /\ UNCHANGED <<deadline, repositionAttempts, servo1, servo2, espCmd>>
  /\ UNCHANGED <<cycRequests, cycAccepted, cycTimedOut, cycDecided, cycSorts>>

\* STATE_WAIT, no-detection branch
WaitNone ==
  /\ UNCHANGED visionVars
  /\ state = "WAIT"
  /\ ~(U32Gt(PollTime, deadline))
  /\ espRx # <<>>
  /\ \E line \in {ReadLine(espRx)} :
       /\ line.buffer # <<>>
       /\ \E reply \in {parseResponse(line.buffer)} :
            /\ ~reply.ok
            /\ espRx' = line.rest
            /\ parsed' = Locals(line.buffer, reply)
  /\ now' = PollTime
  /\ consecutiveNones' = Uint8(consecutiveNones + 1)
  /\ IF repositionAttempts > 0
     THEN /\ IF repositionAttempts < MAX_REPOSITIONS
             THEN state' = "REPOSITION" /\ UNCHANGED <<tallyVars, lcd>>
             ELSE GiveUp
          /\ UNCHANGED cycAborted
     ELSE \E present \in BOOLEAN :
            IF present
            THEN /\ IF repositionAttempts < MAX_REPOSITIONS
                    THEN state' = "REPOSITION" /\ UNCHANGED <<tallyVars, lcd>>
                    ELSE GiveUp
                 /\ UNCHANGED cycAborted
            ELSE /\ state' = "IDLE"
                 /\ cycAborted' = TRUE
                 /\ UNCHANGED <<tallyVars, lcd>>
  /\ UNCHANGED <<deadline, repositionAttempts, servo1, servo2, espCmd>>
  /\ UNCHANGED <<cycRequests, cycAccepted, cycTimedOut, cycDecided, cycSorts>>

Wait == WaitTimeout \/ WaitQuiet \/ WaitEmpty \/ WaitVote \/ WaitNone

\* STATE_REPOSITION without the increment of repositionAttempts
RepositionStuck ==
  /\ UNCHANGED visionVars
  /\ parsed' = Unparsed
  /\ state = "REPOSITION"
  /\ repositionAttempts' = repositionAttempts
  /\ lcd' = <<"Reposition #" \o ToString(repositionAttempts'), "Trying again...">>
  /\ servo1' = IF repositionAttempts' = 1 THEN S1_REPOSITION1 ELSE S1_REPOSITION2
  /\ state' = "REQUEST"
  /\ UNCHANGED <<tallyVars, deadline, consecutiveNones, servo2, now, espRx, espCmd>>
  /\ UNCHANGED cycVars

\* STATE_REPOSITION moving to the first angle at every attempt
RepositionSameAngle ==
  /\ UNCHANGED visionVars
  /\ parsed' = Unparsed
  /\ state = "REPOSITION"
  /\ repositionAttempts' = Uint8(repositionAttempts + 1)
  /\ lcd' = <<"Reposition #" \o ToString(repositionAttempts'), "Trying again...">>
  /\ servo1' = S1_REPOSITION1
  /\ state' = "REQUEST"
  /\ UNCHANGED <<tallyVars, deadline, consecutiveNones, servo2, now, espRx, espCmd>>
  /\ UNCHANGED cycVars

\* STATE_REPOSITION
Reposition ==
  /\ UNCHANGED visionVars
  /\ parsed' = Unparsed
  /\ state = "REPOSITION"
  /\ repositionAttempts' = Uint8(repositionAttempts + 1)
  /\ lcd' = <<"Reposition #" \o ToString(repositionAttempts'), "Trying again...">>
  /\ servo1' = IF repositionAttempts' = 1 THEN S1_REPOSITION1 ELSE S1_REPOSITION2
  /\ state' = "REQUEST"
  /\ UNCHANGED <<tallyVars, deadline, consecutiveNones, servo2, now, espRx, espCmd>>
  /\ UNCHANGED cycVars

\* STATE_DECIDE without the display update
DecideSilent ==
  /\ UNCHANGED visionVars
  /\ parsed' = Unparsed
  /\ state = "DECIDE"
  /\ lcd' = lcd
  /\ state' = "SORT"
  /\ cycDecided' = TRUE
  /\ UNCHANGED <<tallyVars, deadline, repositionAttempts, consecutiveNones,
                 servo1, servo2, now, espRx, espCmd>>
  /\ UNCHANGED <<cycRequests, cycAccepted, cycTimedOut, cycAborted, cycSorts>>

\* STATE_DECIDE zeroing the tally after the bin is displayed
DecideClearsTally ==
  /\ UNCHANGED visionVars
  /\ parsed' = Unparsed
  /\ state = "DECIDE"
  /\ lcd' = BinDisplay(Bin)
  /\ state' = "SORT"
  /\ cycDecided' = TRUE
  /\ zeroTally
  /\ UNCHANGED <<deadline, repositionAttempts, consecutiveNones,
                 servo1, servo2, now, espRx, espCmd>>
  /\ UNCHANGED <<cycRequests, cycAccepted, cycTimedOut, cycAborted, cycSorts>>

\* STATE_DECIDE
Decide ==
  /\ UNCHANGED visionVars
  /\ parsed' = Unparsed
  /\ state = "DECIDE"
  /\ lcd' = BinDisplay(Bin)
  /\ state' = "SORT"
  /\ cycDecided' = TRUE
  /\ UNCHANGED <<tallyVars, deadline, repositionAttempts, consecutiveNones,
                 servo1, servo2, now, espRx, espCmd>>
  /\ UNCHANGED <<cycRequests, cycAccepted, cycTimedOut, cycAborted, cycSorts>>

\* a sortToBin call: the servos end where its last writes leave them, and the
\* call is logged with the bin the display announces at that moment
DoSort(bin, shown) ==
  /\ servo1' = Last(sortToBin(bin).s1)
  /\ servo2' = Last(sortToBin(bin).s2)
  /\ cycSorts' = Append(cycSorts, <<bin, ShownBin(shown)>>)

\* STATE_SORT zeroing the tally once the bin is sorted
SortClearsTally ==
  /\ UNCHANGED visionVars
  /\ parsed' = Unparsed
  /\ state = "SORT"
  /\ DoSort(Bin, lcd)
  /\ state' = "IDLE"
  /\ zeroTally
  /\ UNCHANGED <<deadline, repositionAttempts, consecutiveNones,
                 lcd, now, espRx, espCmd>>
  /\ UNCHANGED <<cycRequests, cycAccepted, cycTimedOut, cycAborted, cycDecided>>

\* STATE_SORT
Sort ==
  /\ UNCHANGED visionVars
  /\ parsed' = Unparsed
  /\ state = "SORT"
  /\ DoSort(Bin, lcd)
  /\ state' = "IDLE"
  /\ UNCHANGED <<tallyVars, deadline, repositionAttempts, consecutiveNones,
                 lcd, now, espRx, espCmd>>
  /\ UNCHANGED <<cycRequests, cycAccepted, cycTimedOut, cycAborted, cycDecided>>

\* STATE_ERROR sorting by the tally as it stands instead of zeroing it
ErrorKeepTally ==
  /\ UNCHANGED visionVars
  /\ parsed' = Unparsed
  /\ state = "ERROR"
  /\ UNCHANGED tallyVars
  /\ lcd' = <<"Error/Timeout", "-> Bin 4">>
  /\ DoSort(Bin, lcd')
  /\ state' = "IDLE"
  /\ UNCHANGED <<deadline, repositionAttempts, consecutiveNones, now, espRx, espCmd>>
  /\ UNCHANGED <<cycRequests, cycAccepted, cycTimedOut, cycAborted, cycDecided>>

Error ==
  /\ UNCHANGED visionVars
  /\ parsed' = Unparsed
  /\ state = "ERROR"
  /\ zeroTally
  /\ lcd' = <<"Error/Timeout", "-> Bin 4">>
  /\ DoSort(4, lcd')
  /\ state' = "IDLE"
  /\ UNCHANGED <<deadline, repositionAttempts, consecutiveNones, now, espRx, espCmd>>
  /\ UNCHANGED <<cycRequests, cycAccepted, cycTimedOut, cycAborted, cycDecided>>

\* one pass of the Sort Controller's loop()
runStateMachine ==
  Idle \/ Detect \/ Request \/ Wait \/ Reposition \/ Decide \/ Sort \/ Error

(***************************************************************************)
(* The link, as the Sort Controller sees it                                *)
(***************************************************************************)
\* A pending INFER is answered and the bytes of one line reach the receive
\* buffer while the Sort Controller waits.  Bytes that arrive in any other
\* state are thrown away by the flush of the next requestInference before
\* anything reads them: for the Sort Controller that delivery is EspDrop.
EspDeliver(lines) ==
  /\ UNCHANGED visionVars
  /\ UNCHANGED parsed
  /\ state = "WAIT"
  /\ espCmd > 0
  /\ espCmd' = espCmd - 1
  /\ \E line \in lines : espRx' = espRx \o line
  /\ UNCHANGED <<state, tallyVars, deadline, repositionAttempts, consecutiveNones,
                 servo1, servo2, lcd, now>>
  /\ UNCHANGED cycVars

EspReply == EspDeliver(LinkLines)

\* a pending command is never answered (read by the Vision Controller as
\* something other than INFER), or its answer arrives outside WAIT
EspDrop ==
  /\ UNCHANGED visionVars
  /\ UNCHANGED parsed
  /\ espCmd > 0
  /\ espCmd' = espCmd - 1
  /\ UNCHANGED <<state, tallyVars, deadline, repositionAttempts, consecutiveNones,
                 servo1, servo2, lcd, now, espRx>>
  /\ UNCHANGED cycVars

(***************************************************************************)
(* Vision Controller: detection filter                                     *)
(* A box is [x, y, width, height, confidence, label, suppressed].          *)
(***************************************************************************)
Box(l, x, y, w, h, c) ==
  [x |-> x, y |-> y, width |-> w, height |-> h, confidence |-> c, label |-> l,
   suppressed |-> FALSE]

area(b) == b.width * b.height
centerX(b) == b.x + (b.width \div 2)
centerY(b) == b.y + (b.height \div 2)
isValid(b) ==
  b.width >= MIN_BOX_SIZE /\ b.height >= MIN_BOX_SIZE /\ b.confidence >= MIN_CONFIDENCE

Suppress(bs, j) == [bs EXCEPT ![j].suppressed = TRUE]

\* intersection area and union area of two boxes
Intersection(a, b) ==
  LET x1 == IF a.x > b.x THEN a.x ELSE b.x
      y1 == IF a.y > b.y THEN a.y ELSE b.y
      x2 == Min(a.x + a.width, b.x + b.width)
      y2 == Min(a.y + a.height, b.y + b.height)
  IN IF x1 >= x2 \/ y1 >= y2 THEN 0 ELSE (x2 - x1) * (y2 - y1)

\* calculateIoU(a, b) > NMS_IOU_THRESHOLD, the threshold in thousandths
IoUAbove(a, b) ==
  LET i == Intersection(a, b)
      u == area(a) + area(b) - i
  IN i > 0 /\ u > 0 /\ 1000 * i > NMS_IOU_THRESHOLD * u

\* distance(a, b) < SPATIAL_THRESHOLD
DistanceBelow(a, b) ==
  LET dx == centerX(a) - centerX(b)
      dy == centerY(a) - centerY(b)
  IN dx * dx + dy * dy < SPATIAL_THRESHOLD * SPATIAL_THRESHOLD

sameClass(a, b) == a.label = b.label

\* 10000 * (confidence * 0.7 + (area / 1000) * 0.3)
Score(b) == 7 * b.confidence + 3 * area(b)

\* filterInvalid without the aspect-ratio test
filterInvalidNoAspect(bs) ==
  [i \in 1..Len(bs) |->
     IF bs[i].suppressed THEN bs[i]
     ELSE IF \/ ~isValid(bs[i])
             \/ bs[i].x + bs[i].width > EI_CLASSIFIER_INPUT_WIDTH
             \/ bs[i].y + bs[i].height > EI_CLASSIFIER_INPUT_HEIGHT
          THEN [bs[i] EXCEPT !.suppressed = TRUE]
          ELSE bs[i]]

\* DetectionFilter::filterInvalid; the aspect ratio width / height is compared
\* with 10 and with 0.1 in whole numbers
filterInvalid(bs) ==
  [i \in 1..Len(bs) |->
     IF bs[i].suppressed THEN bs[i]
     ELSE IF \/ ~isValid(bs[i])
             \/ bs[i].x + bs[i].width > EI_CLASSIFIER_INPUT_WIDTH
             \/ bs[i].y + bs[i].height > EI_CLASSIFIER_INPUT_HEIGHT
             \/ bs[i].width > 10 * bs[i].height
             \/ 10 * bs[i].width < bs[i].height
          THEN [bs[i] EXCEPT !.suppressed = TRUE]
          ELSE bs[i]]

Contained(inner, outer) ==
  /\ inner.x >= outer.x
  /\ inner.y >= outer.y
  /\ inner.x + inner.width <= outer.x + outer.width
  /\ inner.y + inner.height <= outer.y + outer.height

\* the inner loop of removeContained looking at boxes of the same class only
RECURSIVE rcInnerSameClass(_, _, _)
rcInnerSameClass(bs, i, j) ==
  IF j > Len(bs) THEN bs
  ELSE IF i = j \/ bs[j].suppressed \/ bs[i].label # bs[j].label
       THEN rcInnerSameClass(bs, i, j + 1)
  ELSE IF Contained(bs[j], bs[i]) /\ bs[i].confidence > bs[j].confidence
       THEN rcInnerSameClass(Suppress(bs, j), i, j + 1)
       ELSE rcInnerSameClass(bs, i, j + 1)

\* DetectionFilter::removeContained, the loop over j for one i
RECURSIVE rcInner(_, _, _)
rcInner(bs, i, j) ==
  IF j > Len(bs) THEN bs
  ELSE IF i = j \/ bs[j].suppressed THEN rcInner(bs, i, j + 1)
  ELSE IF Contained(bs[j], bs[i]) /\ bs[i].confidence > bs[j].confidence
       THEN rcInner(Suppress(bs, j), i, j + 1)
       ELSE rcInner(bs, i, j + 1)

RECURSIVE rcOuter(_, _)
rcOuter(bs, i) ==
  IF i > Len(bs) THEN bs
  ELSE IF bs[i].suppressed THEN rcOuter(bs, i + 1)
  ELSE rcOuter(rcInner(bs, i, 1), i + 1)

removeContained(bs) == rcOuter(bs, 1)

Swap(bs, j) == [bs EXCEPT ![j] = bs[j + 1], ![j + 1] = bs[j]]

RECURSIVE BubblePass(_, _, _)
BubblePass(bs, j, limit) ==
  IF j > limit THEN bs
  ELSE BubblePass(IF bs[j].confidence < bs[j + 1].confidence THEN Swap(bs, j) ELSE bs,
                  j + 1, limit)

RECURSIVE SortFrom(_, _)
SortFrom(bs, i) ==
  IF i >= Len(bs) - 1 THEN bs
  ELSE SortFrom(BubblePass(bs, 1, Len(bs) - i - 1), i + 1)

\* sortByConfidence leaving the array as it is
sortByConfidenceNone(bs) == bs

\* bubble sort by descending confidence; called with at least one box
sortByConfidence(bs) == SortFrom(bs, 0)

\* the inner loop of applyNMS without the distance test
RECURSIVE nmsInnerIoUOnly(_, _, _)
nmsInnerIoUOnly(bs, i, j) ==
  IF j > Len(bs) THEN bs
  ELSE IF bs[j].suppressed \/ ~sameClass(bs[i], bs[j]) THEN nmsInnerIoUOnly(bs, i, j + 1)
  ELSE IF IoUAbove(bs[i], bs[j])
       THEN nmsInnerIoUOnly(Suppress(bs, j), i, j + 1)
       ELSE nmsInnerIoUOnly(bs, i, j + 1)

\* DetectionFilter::applyNMS, the loop over j for one i
RECURSIVE nmsInner(_, _, _)
nmsInner(bs, i, j) ==
  IF j > Len(bs) THEN bs
  ELSE IF bs[j].suppressed \/ ~sameClass(bs[i], bs[j]) THEN nmsInner(bs, i, j + 1)
  ELSE IF IoUAbove(bs[i], bs[j]) \/ DistanceBelow(bs[i], bs[j])
       THEN nmsInner(Suppress(bs, j), i, j + 1)
       ELSE nmsInner(bs, i, j + 1)

RECURSIVE nmsOuter(_, _)
nmsOuter(bs, i) ==
  IF i > Len(bs) THEN bs
  ELSE IF bs[i].suppressed THEN nmsOuter(bs, i + 1)
  ELSE nmsOuter(nmsInner(bs, i, i + 1), i + 1)

applyNMS(bs) == nmsOuter(sortByConfidence(bs), 1)

\* the inner loop of keepBestPerClass scoring by confidence alone
RECURSIVE kbInnerConfidence(_, _, _)
kbInnerConfidence(bs, i, j) ==
  IF j > Len(bs) THEN bs
  ELSE IF bs[j].suppressed \/ ~sameClass(bs[i], bs[j]) THEN kbInnerConfidence(bs, i, j + 1)
  ELSE IF bs[i].confidence >= bs[j].confidence
       THEN kbInnerConfidence(Suppress(bs, j), i, j + 1)
       ELSE Suppress(bs, i)

\* DetectionFilter::keepBestPerClass, the loop over j for one i
RECURSIVE kbInner(_, _, _)
kbInner(bs, i, j) ==
  IF j > Len(bs) THEN bs
  ELSE IF bs[j].suppressed \/ ~sameClass(bs[i], bs[j]) THEN kbInner(bs, i, j + 1)
  ELSE IF Score(bs[i]) >= Score(bs[j])
       THEN kbInner(Suppress(bs, j), i, j + 1)
       ELSE Suppress(bs, i)

RECURSIVE kbOuter(_, _)
kbOuter(bs, i) ==
  IF i > Len(bs) THEN bs
  ELSE IF bs[i].suppressed THEN kbOuter(bs, i + 1)
  ELSE kbOuter(kbInner(bs, i, i + 1), i + 1)

keepBestPerClass(bs) == kbOuter(bs, 1)

\* the four stages suppressing a box that has no other box beside it
FilterAllAlone(raw) ==
  IF Len(raw) = 1 THEN Suppress(raw, 1)
  ELSE keepBestPerClass(applyNMS(removeContained(filterInvalid(raw))))

\* the four stages, in the order runInference applies them
FilterAll(raw) == keepBestPerClass(applyNMS(removeContained(filterInvalid(raw))))

\* index of the first unsuppressed box, 0 when there is none
FirstUnsuppressed(bs) ==
  LET live == {i \in 1..Len(bs) : ~bs[i].suppressed}
  IN IF live = {} THEN 0 ELSE CHOOSE i \in live : \A j \in live : i <= j

(***************************************************************************)
(* Vision Controller: image buffer, inference, loop()                      *)
(* The heap holds at most the one image block.  mem is                     *)
(* [buf: imageBuffer, g: g_imageData, live: block allocated, faults].      *)
(***************************************************************************)
Mem == [buf |-> imageBuffer, g |-> g_imageData, live |-> heapLive, faults |-> memFault]

\* free(imageBuffer)
FreeBlock(m) ==
  IF m.live THEN [m EXCEPT !.live = FALSE]
  ELSE [m EXCEPT !.faults = @ \cup {"double_free"}]

\* a read through g_imageData (getImageData, called by the classifier)
ReadImage(m) ==
  IF m.g # 0 /\ ~m.live THEN [m EXCEPT !.faults = @ \cup {"use_after_free"}] ELSE m

CaptureOutcomes == {"nomem", "noframe", "noconv", "ok"}

\* CameraManager::capture (the camera is active once setup() has returned)
capture(m, outcome) ==
  LET m1 == IF m.buf # 0 THEN [FreeBlock(m) EXCEPT !.buf = 0] ELSE m
      m2 == [m1 EXCEPT !.buf = 1, !.live = TRUE,
                       !.faults = @ \cup (IF m1.live THEN {"leak"} ELSE {})]
  IN IF outcome = "nomem" THEN [ok |-> FALSE, mem |-> [m1 EXCEPT !.buf = 0]]
     ELSE IF outcome \in {"noframe", "noconv"}
          THEN [ok |-> FALSE, mem |-> [FreeBlock(m2) EXCEPT !.buf = 0]]
          ELSE [ok |-> TRUE, mem |-> m2]

\* CameraManager::release freeing nothing
releaseNothing(m) == m

\* CameraManager::release
release(m) == IF m.buf # 0 THEN [FreeBlock(m) EXCEPT !.buf = 0] ELSE m

\* runInference, the output part: the first unsuppressed box is sent, else NONE
Emit(m, bs) ==
  LET k == FirstUnsuppressed(bs)
  IN [mem |-> m,
      tx |-> IF k # 0 THEN <<FormatOK(bs[k].label, bs[k].confidence)>> ELSE <<NONETXT>>,
      boxes |-> bs,
      path |-> IF k # 0 THEN "found" ELSE "none"]

\* runInference reporting a failed classifier call as "no detection"
runInferenceNone(m, imageData, classifierOk, raw) ==
  IF imageData = 0
  THEN [mem |-> m, tx |-> <<ERR_NULL>>, boxes |-> <<>>, path |-> "null_image"]
  ELSE LET m1 == ReadImage([m EXCEPT !.g = imageData])
       IN IF ~classifierOk
          THEN [mem |-> [m1 EXCEPT !.g = 0], tx |-> <<NONETXT>>, boxes |-> <<>>,
                path |-> "infer_failed"]
          ELSE CHOOSE r \in {Emit([m1 EXCEPT !.g = 0], bs) :
                               bs \in {IF Len(raw) > 0 THEN FilterAll(raw) ELSE <<>>}} : TRUE

\* runInference(imageData): classifierOk and raw are what run_classifier returns
runInference(m, imageData, classifierOk, raw) ==
  IF imageData = 0
  THEN [mem |-> m, tx |-> <<ERR_NULL>>, boxes |-> <<>>, path |-> "null_image"]
  ELSE LET m1 == ReadImage([m EXCEPT !.g = imageData])
       IN IF ~classifierOk
          THEN [mem |-> [m1 EXCEPT !.g = 0], tx |-> <<ERR_INFER>>, boxes |-> <<>>,
                path |-> "infer_failed"]
          ELSE CHOOSE r \in {Emit([m1 EXCEPT !.g = 0], bs) :
                               bs \in {IF Len(raw) > 0 THEN FilterAll(raw) ELSE <<>>}} : TRUE

\* the body of `if (cmd == "INFER")` with no report of a failed capture on
\* either branch
HandleInferQuiet(m, outcome, classifierOk, raw, onLink) ==
  LET c == capture(m, outcome)
  IN IF ~c.ok
     THEN [mem |-> release(c.mem), tx |-> <<>>,
           boxes |-> <<>>, path |-> "capture_failed"]
     ELSE LET r == runInference(c.mem, c.mem.buf, classifierOk, raw)
          IN [r EXCEPT !.mem = release(r.mem)]

\* the body of `if (cmd == "INFER")`; only the link branch reports a failed capture
HandleInfer(m, outcome, classifierOk, raw, onLink) ==
  LET c == capture(m, outcome)
  IN IF ~c.ok
     THEN [mem |-> release(c.mem), tx |-> IF onLink THEN <<ERR_CAPTURE>> ELSE <<>>,
           boxes |-> <<>>, path |-> "capture_failed"]
     ELSE LET r == runInference(c.mem, c.mem.buf, classifierOk, raw)
          IN [r EXCEPT !.mem = release(r.mem)]

Commands == {"INFER", "OTHER"}

\* one command taken by a branch of loop()
Serve(cmd, outcome, classifierOk, onLink) ==
  \E r \in {IF cmd = "INFER" THEN HandleInfer(Mem, outcome, classifierOk, rawBoxes, onLink)
            ELSE [mem |-> Mem, tx |-> <<>>, boxes |-> boxes, path |-> "ignored"]} :
     /\ imageBuffer' = r.mem.buf
     /\ g_imageData' = r.mem.g
     /\ heapLive' = r.mem.live
     /\ memFault' = r.mem.faults
     /\ boxes' = r.boxes
     /\ tx2' = r.tx
     /\ vPath' = r.path
     /\ txBy' = IF onLink THEN "link" ELSE "monitor"
     /\ UNCHANGED rawBoxes

\* loop(), the Serial2 branch: a command line read from the inference link
VisionLink ==
  /\ \E cmd \in Commands, outcome \in CaptureOutcomes, classifierOk \in BOOLEAN :
       Serve(cmd, outcome, classifierOk, TRUE)
  /\ UNCHANGED <<sortVars, cycVars>>

\* loop(), the Serial branch: a command line typed on the USB monitor
VisionMonitor ==
  /\ \E cmd \in Commands, outcome \in CaptureOutcomes, classifierOk \in BOOLEAN :
       Serve(cmd, outcome, classifierOk, FALSE)
  /\ UNCHANGED <<sortVars, cycVars>>

\* raw detections the classifier can report
CandBoxes ==
  {Box(CAN3, 10, 10, 40, 40, 900),      \* a plain can
   Box(CAN3, 15, 15, 20, 20, 800),      \* inside the first, less confident
   Box(CAN3, 12, 12, 40, 40, 950),      \* overlapping the first, more confident
   Box(CAN3, 70, 70, 20, 20, 980),      \* far from the first, small, very confident
   Box(GLASS3, 10, 10, 40, 40, 700),
   Box(BOTTLE3, 90, 90, 10, 10, 990),   \* reaches outside the frame
   Box(BOTTLE3, 50, 50, 30, 30, 640)}   \* below MIN_CONFIDENCE

RawLists == UNION {[1..n -> CandBoxes] : n \in 0..MaxBoxes}

InitSort ==
  /\ state = "IDLE"
  /\ votesCan = 0 /\ votesGlass = 0 /\ votesBottle = 0
  /\ confCan = 0 /\ confGlass = 0 /\ confBottle = 0
  /\ deadline = U32(0, 0) /\ repositionAttempts = 0 /\ consecutiveNones = 0
  /\ servo1 = S1_HOME /\ servo2 = S2_HOME
  /\ lcd = <<"System Ready", "v3.1">>
  /\ now = U32(0, 0)
  /\ parsed = Unparsed
  /\ espRx = <<>> /\ espCmd = 0
  /\ cycRequests = 0 /\ cycAccepted = FALSE
  /\ cycTimedOut = FALSE /\ cycAborted = FALSE /\ cycDecided = FALSE
  /\ cycSorts = <<>>

InitVision ==
  /\ imageBuffer = 0 /\ g_imageData = 0 /\ heapLive = FALSE /\ memFault = {}
  /\ boxes = <<>> /\ rawBoxes = <<>> /\ tx2 = <<>> /\ txBy = "none" /\ vPath = "boot"

Init == InitSort /\ InitVision

Next == runStateMachine \/ EspReply \/ EspDrop

Spec == Init /\ [][Next]_vars

(***************************************************************************)
(* The Vision Controller alone, for one scene in front of the camera       *)
(***************************************************************************)
\* loop() runs forever: a pass of runStateMachine that can be taken is taken
FairSpec == Init /\ [][Next]_vars /\ WF_vars(runStateMachine)

InitScene ==
  /\ InitSort
  /\ imageBuffer = 0 /\ g_imageData = 0 /\ heapLive = FALSE /\ memFault = {}
  /\ boxes = <<>> /\ tx2 = <<>> /\ txBy = "none" /\ vPath = "boot"
  /\ rawBoxes \in RawLists

NextVision == VisionLink \/ VisionMonitor

SpecVision == InitScene /\ [][NextVision]_vars

(***************************************************************************)
(* calculateBin on a free tally: DECIDE and SORT run from any vote counts  *)
(* and any accumulated confidences                                         *)
(***************************************************************************)
ConfSums == {0, 5, 700, 900, 1600}

InitTally ==
  /\ state = "DECIDE"
  /\ votesCan \in 0..MaxTally /\ votesGlass \in 0..MaxTally /\ votesBottle \in 0..MaxTally
  /\ confCan \in ConfSums /\ confGlass \in ConfSums /\ confBottle \in ConfSums
  /\ deadline = U32(0, 0) /\ repositionAttempts = 0 /\ consecutiveNones = 0
  /\ servo1 = S1_HOME /\ servo2 = S2_HOME
  /\ lcd = <<"System Ready", "v3.1">>
  /\ now = U32(0, 0)
  /\ parsed = Unparsed
  /\ espRx = <<>> /\ espCmd = 0
  /\ cycRequests = 0 /\ cycAccepted = FALSE
  /\ cycTimedOut = FALSE /\ cycAborted = FALSE /\ cycDecided = FALSE
  /\ cycSorts = <<>>
  /\ InitVision

NextBin == Decide \/ Sort

SpecBin == InitTally /\ [][NextBin]_vars

\* the bin DECIDE announced, once it has run
Announced == ShownBin(lcd)
\* the bin of the cycle's sortToBin call, once SORT has run
Sorted == cycSorts[1][1]
DecideDone == state = "SORT" \/ (state = "IDLE" /\ cycSorts # <<>>)
SortDone == state = "IDLE" /\ cycSorts # <<>>

SomeMajority ==
  votesCan >= MAJORITY_VOTES \/ votesGlass >= MAJORITY_VOTES \/ votesBottle >= MAJORITY_VOTES
EarliestMajority ==
  IF votesCan >= MAJORITY_VOTES THEN 1
  ELSE IF votesGlass >= MAJORITY_VOTES THEN 2 ELSE 3
AllZeroTally ==
  /\ votesCan = 0 /\ votesGlass = 0 /\ votesBottle = 0
  /\ confCan = 0 /\ confGlass = 0 /\ confBottle = 0

\* C1: whenever some class count is at least MAJORITY_VOTES, the bin that is
\* announced and sorted to is the earliest class, in the order CAN, GLASS,
\* BOTTLE, whose count is at least MAJORITY_VOTES, whatever the confidences.
C1_MajorityFirst ==
  SomeMajority =>
    /\ DecideDone => Announced = EarliestMajority
    /\ SortDone => Sorted = EarliestMajority

\* two classes qualify and the later one has the larger confidence sum
C1_Witness ==
  /\ SortDone /\ Sorted = 2
  /\ votesCan < MAJORITY_VOTES /\ votesGlass >= MAJORITY_VOTES
  /\ votesBottle >= MAJORITY_VOTES /\ confBottle > confGlass

\* C2: for the all-zero tally the bin announced and sorted to is 4 (unknown).
C2_ZeroIsUnknown ==
  AllZeroTally =>
    /\ DecideDone => Announced = 4
    /\ SortDone => Sorted = 4

C2_Witness == AllZeroTally /\ SortDone /\ Sorted = 4

MaxConf ==
  LET m == IF confGlass > confCan THEN confGlass ELSE confCan
  IN IF confBottle > m THEN confBottle ELSE m
\* the first class, in the order CAN, GLASS, BOTTLE, holding the greatest sum
FirstWithMaxConf ==
  IF confCan = MaxConf THEN 1 ELSE IF confGlass = MaxConf THEN 2 ELSE 3

\* C3: with no class at the majority threshold and a nonzero total, the bin is
\* the class with the greatest accumulated confidence, the first of them in the
\* order CAN, GLASS, BOTTLE on equal sums, and 4 when that sum is below the floor.
C3_ConfidenceTieBreak ==
  (~SomeMajority /\ votesCan + votesGlass + votesBottle > 0) =>
    LET want == IF MaxConf < CONF_FLOOR THEN 4 ELSE FirstWithMaxConf
    IN /\ DecideDone => Announced = want
       /\ SortDone => Sorted = want

\* one vote each for CAN (0.7) and GLASS (0.9): GLASS
C3_Witness ==
  /\ SortDone /\ Sorted = 2
  /\ votesCan = 1 /\ votesGlass = 1 /\ votesBottle = 0
  /\ confCan = 700 /\ confGlass = 900

(***************************************************************************)
(* Sort cycles of the Sort Controller                                      *)
(***************************************************************************)
\* the cycle has sent a request, every reply read so far was a non-detection
\* and no deadline has expired
NonDetectionsOnly == cycRequests >= 1 /\ ~cycAccepted /\ ~cycTimedOut

\* C4 as stated: a cycle whose replies were all non-detections does not end
\* without having gone through DECIDE.
C4_AlwaysDecides ==
  (state = "IDLE" /\ NonDetectionsOnly) => cycDecided

\* C4: in a cycle whose replies are all non-detections and whose deadline does
\* not expire, at most MAX_REPOSITIONS + 1 requests are sent; DECIDE is entered
\* only after the third of them, with the all-zero tally and bin 4; and the
\* cycle ends either that way or by the abort to IDLE at the first
\* non-detection, when the object is no longer present at the re-check.
C4_BoundedReposition ==
  NonDetectionsOnly =>
    /\ cycRequests <= MAX_REPOSITIONS + 1
    /\ state \in {"DECIDE", "SORT"} =>
         /\ AllZeroTally /\ Bin = 4
         /\ cycRequests = MAX_REPOSITIONS + 1
         /\ consecutiveNones = MAX_REPOSITIONS + 1
    /\ state = "IDLE" =>
         \/ cycAborted /\ ~cycDecided /\ cycRequests = 1 /\ cycSorts = <<>>
         \/ /\ cycDecided /\ ~cycAborted /\ cycRequests = MAX_REPOSITIONS + 1
            /\ cycSorts = <<<<4, 4>>>>

\* three non-detections in a row have brought the cycle to DECIDE
C4_Witness ==
  /\ state = "DECIDE" /\ NonDetectionsOnly
  /\ cycRequests = 3 /\ consecutiveNones = 3 /\ repositionAttempts = MAX_REPOSITIONS

\* C5: a cycle whose deadline expired in WAIT is in ERROR and then in IDLE and
\* nowhere else; ERROR is entered only that way and before any sort; a pass of
\* WAIT with the deadline expired goes to ERROR whatever the tally; ERROR is
\* left only for IDLE, with the tally zeroed; and at IDLE the cycle has made
\* exactly one sortToBin call, for bin 4.
C5_TimeoutSortsUnknownOnce ==
  /\ [](/\ cycTimedOut => state \in {"ERROR", "IDLE"}
        /\ state = "ERROR" => (cycTimedOut /\ cycSorts = <<>>)
        /\ (cycTimedOut /\ state = "IDLE") =>
             (AllZeroTally /\ Len(cycSorts) = 1 /\ cycSorts[1][1] = 4))
  /\ [][/\ (state = "WAIT" /\ U32Gt(PollTime, deadline) /\ now' # now) =>
             state' = "ERROR"
        /\ state = "ERROR" =>
             (state' \in {"ERROR", "IDLE"} /\ (state' = "IDLE" => AllZeroTally'))]_vars

\* a timeout after a vote had been recorded in the same cycle
C5_Witness ==
  /\ state = "IDLE" /\ cycTimedOut /\ cycAccepted /\ cycRequests >= 2
  /\ cycSorts = <<<<4, 4>>>> /\ AllZeroTally

\* C6: under fair execution of the control loop, from every non-IDLE state the
\* Sort Controller eventually returns to IDLE, whatever the link delivers.
C6_CycleCompletes == (state # "IDLE") ~> (state = "IDLE")

\* C10: at every sortToBin call the display shows a bin, and it is the bin of
\* the call: every logged call has its bin equal to the bin announced before it.
C10_ShownBeforeSorted ==
  \A i \in DOMAIN cycSorts :
    cycSorts[i][1] \in 1..4 /\ cycSorts[i][2] = cycSorts[i][1]

\* a cycle decided by votes has sorted to bin 3 with "Bin 3" on the display
C10_Witness ==
  /\ state = "IDLE" /\ cycDecided /\ cycSorts = <<<<3, 3>>>>
  /\ lcd = BinDisplay(3)

(***************************************************************************)
(* Replies and memory of the Vision Controller                             *)
(***************************************************************************)
\* the last command handled was an INFER
InferHandled == vPath \in {"capture_failed", "null_image", "infer_failed", "found", "none"}

\* text of the form OK:<label>:<d>.<dd>
IsOKLine(l) ==
  /\ StartsWith(l, OKTXT \o <<":">>)
  /\ \E c \in 5..(Len(l) - 4) :
       /\ l[c] = ":"
       /\ \A i \in 4..(c - 1) : l[i] # ":"
       /\ \A i \in (c + 1)..(Len(l) - 3) : l[i] \in DigitSet
       /\ l[Len(l) - 2] = "."
       /\ l[Len(l) - 1] \in DigitSet /\ l[Len(l)] \in DigitSet
IsERRLine(l) == StartsWith(l, ERRTXT) /\ Len(l) > Len(ERRTXT)
IsReplyLine(l) == l = NONETXT \/ IsERRLine(l) \/ IsOKLine(l)

\* C7: the handling of an INFER command read from the inference link writes
\* exactly one line to that link, and the line is OK:<label>:<confidence>, NONE
\* or ERR:<reason>, on the success path and on every failure path.
C7_OneReplyPerInfer ==
  (txBy = "link" /\ InferHandled) =>
    /\ Len(tx2) = 1 /\ IsReplyLine(tx2[1])
    /\ vPath \in {"capture_failed", "null_image", "infer_failed"} => IsERRLine(tx2[1])
    /\ vPath = "found" => IsOKLine(tx2[1])
    /\ vPath = "none" => tx2[1] = NONETXT

\* a link INFER whose frame capture failed has been answered
C7_Witness ==
  txBy = "link" /\ vPath = "capture_failed" /\ tx2 = <<ERR_CAPTURE>>

Unsuppressed == {i \in 1..Len(boxes) : ~boxes[i].suppressed}

\* C8: after an inference that ran the classifier, NONE was sent exactly when
\* no box is unsuppressed after the four stages (or the raw list is empty);
\* otherwise one OK line was sent, for the first unsuppressed box of the array,
\* and no unsuppressed box has a greater confidence.
C8_BestSurvivorEmitted ==
  vPath \in {"found", "none"} =>
    /\ Len(tx2) = 1
    /\ (tx2[1] = NONETXT) <=> (Unsuppressed = {})
    /\ rawBoxes = <<>> => tx2[1] = NONETXT
    /\ Unsuppressed # {} =>
         \E k \in Unsuppressed :
           /\ \A j \in Unsuppressed : k <= j /\ boxes[j].confidence <= boxes[k].confidence
           /\ tx2[1] = OKTXT \o <<":">> \o boxes[k].label \o <<":">> \o Fmt2(boxes[k].confidence)

\* two boxes survive and a suppressed box stands before the one that was sent
C8_Witness ==
  /\ vPath = "found" /\ Cardinality(Unsuppressed) >= 2
  /\ boxes[1].suppressed

\* C9: after the handling of an INFER command, on either port and on every
\* path, the image block is freed, imageBuffer and g_imageData are null, and no
\* double free, use after free or lost block has occurred.
C9_BufferReleased ==
  InferHandled =>
    /\ imageBuffer = 0 /\ g_imageData = 0
    /\ ~heapLive /\ memFault = {}

\* a successful inference has been answered and the block is gone
C9_Witness ==
  /\ vPath = "found" /\ txBy = "link"
  /\ imageBuffer = 0 /\ g_imageData = 0 /\ ~heapLive

(***************************************************************************)
(* Replies read in WAIT                                                    *)
(***************************************************************************)
\* a pass of WAIT that finds bytes on the link before the deadline
ReadsLine == state = "WAIT" /\ ~U32Gt(PollTime, deadline) /\ espRx # <<>> /\ now' # now
\* what the read loop stores of the bytes waiting
Stored == ReadLine(espRx).buffer
\* the states the line NONE can lead to from the current state
NoneNext ==
  IF repositionAttempts > 0
  THEN IF repositionAttempts < MAX_REPOSITIONS THEN {"REPOSITION"} ELSE {"DECIDE"}
  ELSE {"REPOSITION", "IDLE"}

\* C11: a pass of WAIT that reads a line the parser does not accept as a
\* detection, a line with nothing left after the noise bytes are dropped
\* included, increments consecutiveNones and chooses the next state as for NONE.
C11_MalformedAsNone ==
  [][(ReadsLine /\ ~parseResponse(Stored).ok) =>
       /\ consecutiveNones' = Uint8(consecutiveNones + 1)
       /\ state' \in NoneNext]_vars

(***************************************************************************)
(* parseResponse on lines of every shape: one pass of WAIT on a line       *)
(***************************************************************************)
\* what precedes the reply text on the wire
LinePrefixes == {<<>>, <<"x", "x">>, <<"N", "O", "N", "E">>, <<"E", "R", "R", ":">>, <<":">>, <<"#">>}
\* reply texts: well formed, below the threshold, unknown or long label,
\* missing colons, missing parts, nothing at all
LineBodies ==
  {<<"O", "K", ":", "C", "A", "N", "3", ":", "0", ".", "9", "0">>, <<"O", "K", ":", "G", "L", "A", "S", "S", "3", ":", "0", ".", "6", "5">>, <<"O", "K", ":", "B", "O", "T", "T", "L", "E", "3", ":", "0", ".", "6", "4">>, <<"O", "K", ":", "C", "A", "N", ":", "0", ".", "9", "0">>,
   <<"O", "K", ":", "A", "B", "C", "D", "E", "F", "G", "H", "I", "J", "K", "L", "M", "N", "O", "P", "Q", "R", ":", "0", ".", "7", "0">>, <<"O", "K", "x", "x", ":", "C", "A", "N", "3", ":", "1">>, <<"O", "K", ":", "~", "C", "A", "N", "3", ":", "0", ".", "8">>,
   <<"O", "K", ":", "C", "A", "N", "3">>, <<"O", "K">>, <<"O", "K", "C", "A", "N", "3", ":", "0", ".", "9", "0">>, <<"C", "A", "N", "3", ":", "0", ".", "9", "0", ":", "1">>, <<"O", "K", ":", ":", "0", ".", "7", "0">>,
   <<"O", "K", ":", "C", "A", "N", "3", ":">>, <<"O", "K", ":", "C", "A", "N", "3", ":", "x">>, <<"N", "O", "N", "E">>, <<"E", "R", "R", ":", "C", "A", "P", "T", "U", "R", "E", "_", "F", "A", "I", "L", "E", "D">>, <<>>}
LineEnds == {<<CR, LF>>, <<>>}
ParseInputs == {p \o b \o e : p \in LinePrefixes, b \in LineBodies, e \in LineEnds}

InitParse ==
  /\ state = "WAIT"
  /\ espRx \in ParseInputs \ {<<>>}
  /\ votesCan = 0 /\ votesGlass = 0 /\ votesBottle = 0
  /\ confCan = 0 /\ confGlass = 0 /\ confBottle = 0
  /\ now = U32(0, 4100) /\ deadline = U32Add(now, TIMEOUT_MS)
  /\ repositionAttempts = 0 /\ consecutiveNones = 0
  /\ servo1 = S1_HOME /\ servo2 = S2_HOME
  /\ lcd = <<"Requesting", "Inference...">>
  /\ parsed = Unparsed
  /\ espCmd = 0
  /\ cycRequests = 1 /\ cycAccepted = FALSE
  /\ cycTimedOut = FALSE /\ cycAborted = FALSE /\ cycDecided = FALSE
  /\ cycSorts = <<>>
  /\ InitVision

NextParse == WaitEmpty \/ WaitVote \/ WaitNone

SpecParse == InitParse /\ [][NextParse]_vars

\* a pass of WAIT has parsed a line
ParsedLine == parsed.buffer # <<>>
\* the position of the first OK in b, 0 when there is none
FirstOK(b) ==
  LET at == {i \in 1..(Len(b) - 1) : b[i] = "O" /\ b[i + 1] = "K"}
  IN IF at = {} THEN 0 ELSE CHOOSE i \in at : \A j \in at : i <= j
\* the positions of the colons after the first OK of b
ColonsAfterOK(b) == {i \in (FirstOK(b) + 2)..Len(b) : b[i] = ":"}
\* b starts with NONE or ERR:, or has no OK, or fewer than two colons after it
NoDetectionShape(b) ==
  \/ StartsWith(b, NONETXT) \/ StartsWith(b, ERRTXT)
  \/ FirstOK(b) = 0
  \/ Cardinality(ColonsAfterOK(b)) < 2

\* C12: a buffer that starts with NONE or ERR:, or holds no OK, or fewer than
\* two colons after its first OK, is parsed as no detection: parseResponse
\* returns false on it, and the pass of WAIT that parsed it counts a
\* non-detection, records no vote and does not go to ERROR.
C12_NoDetectionShapes ==
  /\ (state = "WAIT" /\ espRx # <<>> /\ NoDetectionShape(Stored)) =>
       ~parseResponse(Stored).ok
  /\ (ParsedLine /\ NoDetectionShape(parsed.buffer)) =>
       /\ ~parsed.ok /\ ~cycAccepted /\ consecutiveNones = 1
       /\ votesCan + votesGlass + votesBottle = 0
       /\ state \in {"REPOSITION", "IDLE"}

\* a complete OK text behind an ERR: prefix has been read as a non-detection
C12_Witness ==
  /\ parsed.buffer = <<"E", "R", "R", ":", "O", "K", ":", "C", "A", "N", "3", ":", "0", ".", "9", "0">>
  /\ ~parsed.ok /\ consecutiveNones = 1 /\ state = "REPOSITION"

\* the first and the second colon after the first OK of b
FirstColon(b) == CHOOSE i \in ColonsAfterOK(b) : \A j \in ColonsAfterOK(b) : i <= j
SecondColon(b) ==
  CHOOSE i \in ColonsAfterOK(b) \ {FirstColon(b)} :
    \A j \in ColonsAfterOK(b) \ {FirstColon(b)} : i <= j
\* the text between the two colons, cut to CLASS_MAX characters
LabelOf(b) ==
  LET t == SubSeq(b, FirstColon(b) + 1, SecondColon(b) - 1)
  IN IF Len(t) > CLASS_MAX THEN SubSeq(t, 1, CLASS_MAX) ELSE t
\* the number at the head of the text after the second colon, in thousandths
ConfOf(b) == Atof(SubSeq(b, SecondColon(b) + 1, Len(b)))
\* what C13 says parseResponse yields on b
Yields(b, r) ==
  /\ r.class = LabelOf(b)
  /\ r.conf = ConfOf(b)
  /\ r.ok <=> (ConfOf(b) >= MIN_CONFIDENCE)

Hundredths == 100

\* the Sort Controller waits, and the Vision Controller holds one surviving
\* detection of a known class with a confidence given in hundredths
InitTrip ==
  /\ state = "WAIT" /\ espRx = <<>>
  /\ votesCan = 0 /\ votesGlass = 0 /\ votesBottle = 0
  /\ confCan = 0 /\ confGlass = 0 /\ confBottle = 0
  /\ now = U32(0, 4100) /\ deadline = U32Add(now, TIMEOUT_MS)
  /\ repositionAttempts = 0 /\ consecutiveNones = 0
  /\ servo1 = S1_HOME /\ servo2 = S2_HOME
  /\ lcd = <<"Requesting", "Inference...">>
  /\ parsed = Unparsed
  /\ espCmd = 0
  /\ cycRequests = 1 /\ cycAccepted = FALSE
  /\ cycTimedOut = FALSE /\ cycAborted = FALSE /\ cycDecided = FALSE
  /\ cycSorts = <<>>
  /\ imageBuffer = 0 /\ g_imageData = 0 /\ heapLive = FALSE /\ memFault = {}
  /\ rawBoxes = <<>> /\ tx2 = <<>> /\ txBy = "none" /\ vPath = "boot"
  /\ \E label \in Labels, h \in 0..Hundredths :
       boxes = <<Box(label, 10, 10, 40, 40, 10 * h)>>

\* the output part of runInference on the boxes held, and the line on the wire
SendReply ==
  /\ state = "WAIT" /\ tx2 = <<>> /\ espRx = <<>>
  /\ \E r \in {Emit(Mem, boxes)} :
       /\ tx2' = r.tx
       /\ espRx' = Println(r.tx[1])
       /\ vPath' = r.path
  /\ txBy' = "link"
  /\ UNCHANGED <<imageBuffer, g_imageData, heapLive, memFault, boxes, rawBoxes>>
  /\ UNCHANGED <<state, tallyVars, deadline, repositionAttempts, consecutiveNones,
                 servo1, servo2, lcd, now, parsed, espCmd>>
  /\ UNCHANGED cycVars

NextTrip == SendReply \/ WaitVote \/ WaitNone

SpecTrip == InitTrip /\ [][NextTrip]_vars

\* C14: the line formatted for a detection of class CAN3, GLASS3 or BOTTLE3 with
\* a confidence of 0.00 to 1.00 in hundredths is parsed back to the same label
\* and the same confidence, and is accepted exactly from 0.65 on.
C14_RoundTrip ==
  ParsedLine =>
    /\ parsed.buffer = tx2[1]
    /\ parsed.class = boxes[1].label
    /\ parsed.conf = boxes[1].confidence
    /\ parsed.ok <=> (boxes[1].confidence >= MIN_CONFIDENCE)

\* 0.91 for a can has crossed the link and is a vote with that confidence
C14_Witness ==
  /\ ParsedLine /\ tx2 = <<<<"O", "K", ":", "C", "A", "N", "3", ":", "0", ".", "9", "1">>>>
  /\ parsed.class = CAN3 /\ parsed.conf = 910
  /\ votesCan = 1 /\ confCan = 910


\* ---------------------------------------------------------------------------
\* The reply deadline when the millisecond clock is close to 2^32
\* ---------------------------------------------------------------------------

\* Bounds: the request times reach back ClockSteps half-seconds from the wrap
\* of the clock, and a silent request is followed for ClockHorizon timeouts.
ClockSteps == 12
ClockHorizon == 4

\* (a - b) modulo 2^32 as an integer, for values less than 2^17 apart
U32Diff(a, b) == ((a.hi - b.hi) % 65536) * 65536 + a.lo - b.lo

\* millis() at the requests of this specification
ClockTimes ==
  {U32(0, 4100), U32(65535, 65535 - TIMEOUT_MS)}
    \cup {U32(65535, 65536 - 500 * k) : k \in 1..ClockSteps}

\* millis() when requestInference() armed the pending deadline
RequestedAt == The({t \in ClockTimes : U32Add(t, TIMEOUT_MS) = deadline})

\* milliseconds between the pending request and the instant t
ElapsedAt(t) == U32Diff(t, RequestedAt)

RequestNearWrap == RequestAt(ClockTimes, MaxPending)

\* STATE_WAIT with a silent link, followed for ClockHorizon timeouts
WaitQuietWithin ==
  /\ state = "WAIT"
  /\ ElapsedAt(now) < ClockHorizon * TIMEOUT_MS
  /\ WaitQuiet

NextClock ==
  Idle \/ Detect \/ RequestNearWrap \/ WaitTimeout \/ WaitQuietWithin \/ Error

SpecClock == Init /\ [][NextClock]_vars

\* C15: a WAIT pass goes to ERROR only when TIMEOUT_MS milliseconds have
\* passed since the request was sent, and a WAIT pass with a silent link
\* that runs more than TIMEOUT_MS after the request does go to ERROR,
\* wherever the 32-bit clock stood at the request.
C15_TimeoutAcrossWrap ==
  [][(state = "WAIT" /\ now' # now) =>
       /\ state' = "ERROR" => ElapsedAt(now') >= TIMEOUT_MS
       /\ (espRx = <<>> /\ ElapsedAt(now') > TIMEOUT_MS) => state' = "ERROR"]_vars


\* ---------------------------------------------------------------------------
\* Failure replies of the Vision Controller
\* ---------------------------------------------------------------------------

\* what parseResponse makes of a line as the link delivers it
ParsedFromLink(text) == parseResponse(ReadLine(Println(text)).buffer)

\* an ERR:<reason> line, neither NONE nor OK, that parses as NONE parses
ErrAsNone(l) ==
  /\ IsERRLine(l)
  /\ l # NONETXT /\ ~StartsWith(l, NONETXT) /\ ~StartsWith(l, OKTXT)
  /\ ~ParsedFromLink(l).ok
  /\ ParsedFromLink(l) = ParsedFromLink(NONETXT)

\* C16: when the frame capture fails, the image pointer is null or the
\* classifier call fails, every line the Vision Controller writes to the link
\* is an ERR:<reason> line, never NONE or OK, a command from the link gets
\* exactly one such line, and parseResponse gives for it the result it gives
\* for NONE.
C16_FailuresReplyERR ==
  /\ (InferHandled /\ vPath \in {"capture_failed", "null_image", "infer_failed"}) =>
       /\ \A i \in 1..Len(tx2) : ErrAsNone(tx2[i])
       /\ txBy = "link" => Len(tx2) = 1
  /\ \A classifierOk \in BOOLEAN :
       \E r \in {runInference(Mem, 0, classifierOk, rawBoxes)} :
          /\ r.path = "null_image"
          /\ Len(r.tx) = 1 /\ ErrAsNone(r.tx[1])

\* a link INFER whose classifier call failed has been answered
C16_Witness ==
  /\ txBy = "link" /\ vPath = "infer_failed"
  /\ tx2 = <<ERR_INFER>>
  /\ ~ParsedFromLink(tx2[1]).ok


\* ---------------------------------------------------------------------------
\* Votes
\* ---------------------------------------------------------------------------

\* a WAIT pass in which parseResponse accepted the line it read
AcceptsReply == state = "WAIT" /\ now' # now /\ parsed'.ok

\* the vote counts and confidence sums, by class
Counts == <<votesCan, votesGlass, votesBottle>>
ConfTotals == <<confCan, confGlass, confBottle>>
TotalVotes == getTotalVotes(votesCan, votesGlass, votesBottle)

\* C17: every reply accepted by parseResponse in WAIT records a vote: exactly
\* one class count grows by one while the others stay, the total grows by
\* one, and the confidence sum of that class grows by the reply's confidence,
\* whatever the label of the reply.
C17_AcceptedReplyVotes ==
  [][AcceptsReply =>
       /\ \E k \in 1..3 :
            /\ Counts'[k] = Counts[k] + 1
            /\ ConfTotals'[k] = ConfTotals[k] + parsed'.conf
            /\ \A j \in (1..3) \ {k} :
                 Counts'[j] = Counts[j] /\ ConfTotals'[j] = ConfTotals[j]
       /\ TotalVotes' = TotalVotes + 1]_vars


\* C18: after a WAIT pass that accepted a reply and recorded its vote, the
\* state is DECIDE exactly when some class count is at least MAJORITY_VOTES or
\* the three counts add up to at least MAX_VOTES, and REQUEST otherwise; the
\* pass leaves repositionAttempts alone, and the REQUEST state that follows
\* changes neither the tally nor repositionAttempts.
C18_DecideOrRequest ==
  [][/\ AcceptsReply =>
          /\ state' \in {"DECIDE", "REQUEST"}
          /\ state' = "DECIDE" <=>
               \/ \E k \in 1..3 : Counts'[k] >= MAJORITY_VOTES
               \/ Counts'[1] + Counts'[2] + Counts'[3] >= MAX_VOTES
          /\ repositionAttempts' = repositionAttempts
     /\ state = "REQUEST" => UNCHANGED <<tallyVars, repositionAttempts>>]_vars

\* a first vote recorded after a reposition: one more request is due, and the
\* reposition count is still there
C18_Witness ==
  /\ state = "REQUEST" /\ parsed.ok
  /\ Counts[1] + Counts[2] + Counts[3] = 1
  /\ repositionAttempts > 0


\* ---------------------------------------------------------------------------
\* Non-detections
\* ---------------------------------------------------------------------------

\* a WAIT pass in which parseResponse rejected the line it read
RejectsReply == state = "WAIT" /\ now' # now /\ parsed'.buffer # <<>> /\ ~parsed'.ok

\* the cycle gave up: DECIDE or SORT was entered from a non-detection
GaveUp == state \in {"DECIDE", "SORT"} /\ consecutiveNones > 0

\* C19: a non-detection in WAIT with repositionAttempts > 0 has one outcome,
\* whatever the presence sensor would say: REPOSITION with the tally kept while
\* repositionAttempts < MAX_REPOSITIONS, and otherwise DECIDE with every count
\* and confidence sum zero; the cycle that gave up is then sorted once, to
\* bin 4, whatever had been voted before.
C19_RepositionOrGiveUp ==
  [][/\ (RejectsReply /\ repositionAttempts > 0) =>
          IF repositionAttempts < MAX_REPOSITIONS
          THEN state' = "REPOSITION" /\ UNCHANGED tallyVars
          ELSE state' = "DECIDE" /\ AllZeroTally' /\ Bin' = 4
     /\ GaveUp => (AllZeroTally /\ Bin = 4 /\ state' \in {"DECIDE", "SORT", "IDLE"})
     /\ (GaveUp /\ state = "SORT" /\ state' # state) =>
          (Len(cycSorts') = 1 /\ cycSorts'[1][1] = 4)]_vars

\* the cycle gave up after a reply had been accepted earlier in it
C19_Witness ==
  /\ state = "DECIDE" /\ consecutiveNones > 0
  /\ repositionAttempts = MAX_REPOSITIONS
  /\ cycAccepted /\ AllZeroTally


\* C20: a non-detection in WAIT with repositionAttempts = 0 leads to
\* REPOSITION or to IDLE and to nothing else, as the presence sensor says; the
\* pass moves no servo and calls no sortToBin, and when it ends in IDLE the
\* cycle is over as an abort with no sortToBin call in it, whatever the tally.
C20_PresenceRechecked ==
  [][(RejectsReply /\ repositionAttempts = 0) =>
       /\ state' \in {"REPOSITION", "IDLE"}
       /\ UNCHANGED <<servo1, servo2, cycSorts, tallyVars, repositionAttempts>>
       /\ state' = "IDLE" => (cycAborted' /\ cycSorts' = <<>> /\ ~cycDecided')]_vars

\* the object was gone at the first non-detection, after a vote had been
\* recorded: the cycle is over with nothing sorted
C20_Witness ==
  /\ state = "IDLE" /\ cycAborted /\ ~parsed.ok /\ parsed.buffer # <<>>
  /\ ~AllZeroTally /\ repositionAttempts = 0
  /\ cycSorts = <<>>


\* ---------------------------------------------------------------------------
\* The start of a cycle
\* ---------------------------------------------------------------------------

\* C21: the DETECT pass that starts a cycle (DETECT to REQUEST) leaves every
\* vote count, every confidence sum, repositionAttempts and consecutiveNones
\* zero and the first servo at S1_HOME, whatever they were before the pass.
C21_CycleStartsClean ==
  [][(state = "DETECT" /\ state' = "REQUEST") =>
       /\ AllZeroTally'
       /\ repositionAttempts' = 0 /\ consecutiveNones' = 0
       /\ servo1' = S1_HOME]_vars

\* a cycle starts after an earlier cycle of this run had sent a request
C21_Witness ==
  /\ state = "REQUEST" /\ cycRequests = 0
  /\ deadline # U32(0, 0)
  /\ AllZeroTally /\ repositionAttempts = 0 /\ consecutiveNones = 0
  /\ servo1 = S1_HOME


\* ---------------------------------------------------------------------------
\* DECIDE and SORT
\* ---------------------------------------------------------------------------

\* C22: the bin that SORT computes and sorts to is the bin that the DECIDE
\* pass before it computed and displayed: neither pass writes a field of the
\* tally, the bin on the display when SORT is entered is calculateBin of the
\* tally, and the sortToBin call of SORT is made with that same bin.
C22_SortBinIsDecideBin ==
  [][/\ state \in {"DECIDE", "SORT"} => UNCHANGED tallyVars
     /\ (state = "DECIDE" /\ state' = "SORT") => ShownBin(lcd') = Bin
     /\ (state = "SORT" /\ state' = "IDLE") =>
          /\ ShownBin(lcd) = Bin
          /\ cycSorts' = Append(cycSorts, <<Bin, Bin>>)]_vars

\* one vote for each class, settled by the confidence sums, has been sorted
\* to the bin that was displayed
C22_Witness ==
  /\ state = "IDLE" /\ cycDecided
  /\ votesCan = 1 /\ votesGlass = 1 /\ votesBottle = 1
  /\ cycSorts = <<<<Bin, ShownBin(lcd)>>>>
  /\ ShownBin(lcd) = Bin


\* ---------------------------------------------------------------------------
\* REPOSITION
\* ---------------------------------------------------------------------------

\* C23: a REPOSITION pass adds exactly one to repositionAttempts, puts the
\* first servo at 45 degrees on the first attempt of the cycle and at 90
\* degrees on the second, both away from S1_HOME, leaves the tally as it is
\* and ends in REQUEST.
C23_RepositionStep ==
  [][state = "REPOSITION" =>
       /\ state' \in {"REPOSITION", "REQUEST"}
       /\ UNCHANGED tallyVars
       /\ state' = "REQUEST" =>
            /\ repositionAttempts' = repositionAttempts + 1
            /\ repositionAttempts' \in {1, 2}
            /\ repositionAttempts' = 1 => servo1' = 45
            /\ repositionAttempts' = 2 => servo1' = 90
            /\ servo1' # S1_HOME]_vars

\* the second reposition of a cycle has run
C23_Witness ==
  /\ state = "REQUEST" /\ repositionAttempts = 2
  /\ servo1 = 90
  /\ lcd = <<"Reposition #2", "Trying again...">>


\* ---------------------------------------------------------------------------
\* Writers of the tally
\* ---------------------------------------------------------------------------

\* a cycle is under way: DETECT has reset the tally and IDLE is not yet back
InCycle == state \in {"REQUEST", "WAIT", "REPOSITION", "DECIDE", "SORT", "ERROR"}

\* C24 as stated: inside a cycle a count or a confidence sum changes only in
\* a WAIT pass that accepted a reply and called recordVote.
C24_OnlyRecordVote ==
  [][(InCycle /\ tallyVars' # tallyVars) => AcceptsReply]_vars

\* C24: inside a cycle a count or a confidence sum changes only in a WAIT pass
\* that accepted a reply and called recordVote, in the WAIT pass that gives up
\* after the last reposition, and in ERROR; the last two set every count and
\* every confidence sum to zero and write nothing else into the tally.
C24_TallyWriters ==
  [][(InCycle /\ tallyVars' # tallyVars) =>
       \/ AcceptsReply
       \/ /\ RejectsReply /\ repositionAttempts >= MAX_REPOSITIONS
          /\ state' = "DECIDE" /\ AllZeroTally'
       \/ state = "ERROR" /\ state' = "IDLE" /\ AllZeroTally']_vars

\* a timeout struck with a vote in the tally, and ERROR has zeroed it
C24_Witness ==
  /\ state = "IDLE" /\ cycTimedOut /\ cycAccepted
  /\ repositionAttempts = 0 /\ consecutiveNones = 0
  /\ AllZeroTally
  /\ Len(cycSorts) = 1

\* ---------------------------------------------------------------------------
\* The read loop of WAIT on lines of every shape
\* ---------------------------------------------------------------------------

\* bytes ahead of the reply: nothing, noise, a blank, stray letters
ReadPrefixes == {<<>>, <<"#", "~">>, <<" ">>, <<"x", "x">>}
\* reply bytes: plain, with blanks and other unsafe bytes inside, of exactly
\* 31, of 32 and of 43 safe characters, with an unsafe byte after every safe
\* one, nothing at all
ReadBodies ==
  {<<"O", "K", ":", "C", "A", "N", "3", ":", "0", ".", "9", "0">>, <<"O", "K", ":", " ", "C", "A", "N", "3", " ", ":", "0", ".", "9", "0">>, <<"E", "R", "R", ":", "C", "A", "P", "T", "U", "R", "E", "_", "F", "A", "I", "L", "E", "D">>, <<"N", "O", "N", "E">>,
   <<"O", "K", ":", "A", "B", "C", "D", "E", "F", "G", "H", "I", "J", "K", "L", "M", "N", "O", "P", "Q", "R", "S", "T", "U", "V", "W", ":", "0", ".", "9", "0">>,
   <<"O", "K", ":", "A", "B", "C", "D", "E", "F", "G", "H", "I", "J", "K", "L", "M", "N", "O", "P", "Q", "R", "S", "T", "U", "V", "W", "X", ":", "0", ".", "9", "0">>,
   <<"O", "K", ":", "a", "b", "c", "d", "e", "f", "g", "h", "i", "j", "k", "l", "m", "n", "o", "p", "q", "r", "s", "t", "u", "v", "w", "x", "y", "z", "0", "1", "2", "3", "4", "5", "6", "7", "8", "9", ":", "0", ".", "9">>,
   <<"O", "-", "K", "-", ":", "-", "G", "-", "L", "-", "A", "-", "S", "-", "S", "-", "3", "-", ":", "-", "0", "-", ".", "-", "7", "-", "0", "-", "a", "-", "b", "-", "c", "-", "d", "-", "e", "-", "f", "-", "g", "-", "h", "-", "i", "-", "j", "-", "k", "-", "l", "-", "m", "-", "n", "-", "o", "-", "p", "-", "q", "-", "r", "-", "s">>,
   <<>>}
\* what follows: nothing, a terminator of either kind or both, a second line
ReadEnds ==
  {<<>>, <<LF>>, <<CR>>, <<CR, LF>>,
   <<LF>> \o <<"N", "O", "N", "E">> \o <<LF>>,
   <<CR>> \o <<"O", "K", ":", "G", "L", "A", "S", "S", "3", ":", "0", ".", "7", "0">>}
ReadInputs == {p \o b \o e : p \in ReadPrefixes, b \in ReadBodies, e \in ReadEnds}

InitRead ==
  /\ state = "WAIT"
  /\ espRx \in ReadInputs \ {<<>>}
  /\ votesCan = 0 /\ votesGlass = 0 /\ votesBottle = 0
  /\ confCan = 0 /\ confGlass = 0 /\ confBottle = 0
  /\ now = U32(0, 4100) /\ deadline = U32Add(now, TIMEOUT_MS)
  /\ repositionAttempts = 0 /\ consecutiveNones = 0
  /\ servo1 = S1_HOME /\ servo2 = S2_HOME
  /\ lcd = <<"Requesting", "Inference...">>
  /\ parsed = Unparsed
  /\ espCmd = 0
  /\ cycRequests = 1 /\ cycAccepted = FALSE
  /\ cycTimedOut = FALSE /\ cycAborted = FALSE /\ cycDecided = FALSE
  /\ cycSorts = <<>>
  /\ InitVision

NextRead == WaitEmpty \/ WaitVote \/ WaitNone

SpecRead == InitRead /\ [][NextRead]_vars

\* the place of the first \n or \r of rx, or one past its end
FirstEnd(rx) ==
  IF \E i \in 1..Len(rx) : rx[i] \in {LF, CR}
  THEN CHOOSE i \in 1..Len(rx) :
         rx[i] \in {LF, CR} /\ \A j \in 1..(i - 1) : rx[j] \notin {LF, CR}
  ELSE Len(rx) + 1
\* a digit, a letter of either case, a colon or a dot
KeptByte(c) == c \in DigitSet \cup UpperSet \cup LowerSet \cup {":", "."}

\* C25: a WAIT pass that reads takes the bytes up to and including the first
\* \n or \r out of the receive buffer, and the line it stores is made of the
\* digits, letters, colons and dots among the bytes before that terminator,
\* in arrival order, cut after 31 characters.
C25_LineAssembly ==
  [][(state = "WAIT" /\ now' # now) =>
       /\ Len(parsed'.buffer) <= 31
       /\ parsed'.buffer =
            Take(SelectSeq(SubSeq(espRx, 1, FirstEnd(espRx) - 1), KeptByte), 31)
       /\ espRx' = SubSeq(espRx, FirstEnd(espRx) + 1, Len(espRx))]_vars

\* a line of more than 31 safe characters mixed with unsafe bytes has been
\* read, and a second line is still in the receive buffer
C25_Witness ==
  /\ Len(parsed.buffer) = 31
  /\ parsed.buffer[14] = "0" /\ parsed.buffer[31] = "q"
  /\ espRx # <<>>

\* ---------------------------------------------------------------------------
\* The four filter stages, one at a time
\* ---------------------------------------------------------------------------

\* raw boxes around each limit of the validity stage: a good box, then width,
\* height, confidence, right edge, bottom edge and aspect ratio, each just
\* outside and just inside its limit
ValidityBoxes ==
  {Box(CAN3, 10, 10, 40, 40, 900),
   Box(CAN3, 10, 10, 1, 10, 900),    Box(CAN3, 10, 10, 2, 10, 900),
   Box(CAN3, 10, 10, 10, 1, 900),    Box(CAN3, 10, 10, 10, 2, 900),
   Box(GLASS3, 10, 10, 40, 40, 649), Box(GLASS3, 10, 10, 40, 40, 650),
   Box(CAN3, 57, 10, 40, 40, 900),   Box(CAN3, 56, 10, 40, 40, 900),
   Box(CAN3, 10, 57, 40, 40, 900),   Box(CAN3, 10, 56, 40, 40, 900),
   Box(BOTTLE3, 10, 10, 42, 4, 900), Box(BOTTLE3, 10, 10, 40, 4, 900),
   Box(BOTTLE3, 10, 10, 4, 42, 900), Box(BOTTLE3, 10, 10, 4, 40, 900)}

\* valid boxes nested in one another, across classes, with the inner one less,
\* equally and more confident than the outer one
ContainBoxes ==
  {Box(CAN3, 10, 10, 40, 40, 900),
   Box(CAN3, 15, 15, 20, 20, 800),
   Box(GLASS3, 20, 20, 10, 10, 700),
   Box(BOTTLE3, 12, 12, 30, 30, 950),
   Box(GLASS3, 10, 10, 40, 40, 900),
   Box(GLASS3, 70, 70, 20, 20, 990)}

\* valid boxes of one class that overlap, that are near without overlapping
\* and that are far apart, and an overlapping box of another class
NmsBoxes ==
  {Box(CAN3, 10, 10, 40, 40, 900),
   Box(CAN3, 12, 12, 40, 40, 800),
   Box(CAN3, 14, 10, 40, 40, 950),
   Box(CAN3, 0, 0, 10, 10, 700),
   Box(CAN3, 80, 80, 10, 10, 850),
   Box(GLASS3, 10, 10, 40, 40, 990)}

\* valid boxes of one class far from one another, with the larger area
\* outweighing the larger confidence, with equal scores, and a box of another
\* class
BestBoxes ==
  {Box(CAN3, 0, 0, 10, 10, 900),
   Box(CAN3, 70, 70, 20, 20, 700),
   Box(CAN3, 0, 70, 25, 25, 660),
   Box(CAN3, 70, 0, 24, 24, 700),
   Box(CAN3, 86, 86, 10, 10, 900),
   Box(GLASS3, 40, 40, 16, 16, 750)}

ListsOver(cands, n) == UNION {[1..k -> cands] : k \in 1..n}

\* the raw detection lists of this specification
FilterLists ==
  ListsOver(ValidityBoxes, MaxBoxes - 1) \cup ListsOver(ContainBoxes, MaxBoxes)
    \cup ListsOver(NmsBoxes, MaxBoxes) \cup ListsOver(BestBoxes, MaxBoxes)

InitFilter ==
  /\ InitSort
  /\ imageBuffer = 0 /\ g_imageData = 0 /\ heapLive = FALSE /\ memFault = {}
  /\ tx2 = <<>> /\ txBy = "none"
  /\ rawBoxes \in FilterLists
  /\ boxes = rawBoxes
  /\ vPath = "raw"

\* one call on the array as it stands: rawBoxes keeps the array before the
\* call, boxes is the array after it, vPath names the call
Stage(name, out) ==
  /\ rawBoxes' = boxes
  /\ boxes' = out
  /\ vPath' = name
  /\ UNCHANGED <<imageBuffer, g_imageData, heapLive, memFault, tx2, txBy>>
  /\ UNCHANGED <<sortVars, cycVars>>

\* the array is still being filtered stage by stage
Staged == vPath \notin {"filtered", "refiltered"}

StageInvalid ==
  /\ Staged
  /\ Stage("filterInvalid", filterInvalid(boxes))

StageContained ==
  /\ Staged
  /\ Stage("removeContained", removeContained(boxes))

StageNMS ==
  /\ Staged
  /\ Stage("applyNMS", applyNMS(boxes))

StageBest ==
  /\ Staged
  /\ Stage("keepBestPerClass", keepBestPerClass(boxes))

\* the four calls of runInference on the raw array
RunFilters ==
  /\ vPath = "raw"
  /\ Stage("filtered", FilterAll(boxes))

\* the four calls once more, on an array holding one survivor of the first run
Refilter ==
  /\ vPath = "filtered"
  /\ \E k \in 1..Len(boxes) :
       /\ ~boxes[k].suppressed
       /\ rawBoxes' = <<boxes[k]>>
       /\ boxes' = FilterAll(<<boxes[k]>>)
  /\ vPath' = "refiltered"
  /\ UNCHANGED <<imageBuffer, g_imageData, heapLive, memFault, tx2, txBy>>
  /\ UNCHANGED <<sortVars, cycVars>>

NextFilter ==
  StageInvalid \/ StageContained \/ StageNMS \/ StageBest \/ RunFilters \/ Refilter

SpecFilter == InitFilter /\ [][NextFilter]_vars

\* the same boxes in the same places, whatever their suppressed flags
SameBoxes(before, after) ==
  /\ Len(after) = Len(before)
  /\ \A i \in 1..Len(before) : [after[i] EXCEPT !.suppressed = before[i].suppressed] = before[i]

\* C26: after filterInvalid the array holds the same boxes in the same places,
\* and a box is unsuppressed exactly when it was unsuppressed before and has
\* width >= 2, height >= 2, confidence >= 0.65, x + width and y + height within
\* the frame, and width / height between 0.1 and 10 inclusive.
C26_ValidityStage ==
  vPath = "filterInvalid" =>
    /\ SameBoxes(rawBoxes, boxes)
    /\ \A i \in 1..Len(boxes) :
         ~boxes[i].suppressed <=>
           /\ ~rawBoxes[i].suppressed
           /\ boxes[i].width >= 2 /\ boxes[i].height >= 2
           /\ boxes[i].confidence >= 650
           /\ boxes[i].x + boxes[i].width <= EI_CLASSIFIER_INPUT_WIDTH
           /\ boxes[i].y + boxes[i].height <= EI_CLASSIFIER_INPUT_HEIGHT
           /\ boxes[i].width <= 10 * boxes[i].height
           /\ boxes[i].height <= 10 * boxes[i].width

\* the stage met a box that was suppressed already and suppressed another for
\* its aspect ratio alone
C26_Witness ==
  /\ vPath = "filterInvalid"
  /\ \E i, j \in 1..Len(boxes) :
       /\ rawBoxes[i].suppressed
       /\ ~rawBoxes[j].suppressed /\ boxes[j].suppressed
       /\ boxes[j].width > 10 * boxes[j].height

\* box a lies within box b, edges included
Within(a, b) ==
  /\ a.x >= b.x /\ a.y >= b.y
  /\ a.x + a.width <= b.x + b.width
  /\ a.y + a.height <= b.y + b.height

\* the places of the unsuppressed boxes of an array
Live(bs) == {i \in 1..Len(bs) : ~bs[i].suppressed}

\* C27: after removeContained the array holds the same boxes in the same
\* places and nothing suppressed has come back; no unsuppressed box lies
\* within another unsuppressed box of strictly higher confidence; and every
\* box the stage suppressed lies within a box of strictly higher confidence
\* that is unsuppressed after the stage, of whatever class.
C27_ContainmentStage ==
  vPath = "removeContained" =>
    /\ SameBoxes(rawBoxes, boxes)
    /\ Live(boxes) \subseteq Live(rawBoxes)
    /\ \A i, j \in Live(boxes) :
         i # j => ~(Within(boxes[j], boxes[i]) /\ boxes[i].confidence > boxes[j].confidence)
    /\ \A j \in Live(rawBoxes) \ Live(boxes) :
         \E i \in Live(boxes) :
            Within(boxes[j], boxes[i]) /\ boxes[i].confidence > boxes[j].confidence

\* a box was suppressed by a box of another class, and the only boxes it lies
\* within that are still unsuppressed are of another class
C27_Witness ==
  /\ vPath = "removeContained"
  /\ \E j \in Live(rawBoxes) \ Live(boxes) :
       /\ \E i \in Live(boxes) : Within(boxes[j], boxes[i])
       /\ \A i \in Live(boxes) : Within(boxes[j], boxes[i]) => boxes[i].label # boxes[j].label

\* a box without its suppressed flag
Unflagged(b) == [b EXCEPT !.suppressed = FALSE]

\* the two arrays hold the same boxes, each as many times, in whatever order
SameBoxesReordered(before, after) ==
  /\ Len(after) = Len(before)
  /\ \A i \in 1..Len(before) :
       Cardinality({k \in 1..Len(after) : Unflagged(after[k]) = Unflagged(before[i])})
         = Cardinality({k \in 1..Len(before) : Unflagged(before[k]) = Unflagged(before[i])})

\* area shared by two boxes
Overlap(a, b) ==
  LET w == Min(a.x + a.width, b.x + b.width) - (IF a.x > b.x THEN a.x ELSE b.x)
      h == Min(a.y + a.height, b.y + b.height) - (IF a.y > b.y THEN a.y ELSE b.y)
  IN IF w > 0 /\ h > 0 THEN w * h ELSE 0

\* IoU > 0.2: five times the shared area exceeds the area of the union
IoUOverFifth(a, b) ==
  5 * Overlap(a, b) > a.width * a.height + b.width * b.height - Overlap(a, b)

\* centre-to-centre distance < 60
CentresNear(a, b) ==
  LET dx == (a.x + a.width \div 2) - (b.x + b.width \div 2)
      dy == (a.y + a.height \div 2) - (b.y + b.height \div 2)
  IN dx * dx + dy * dy < 3600

\* the unsuppressed places of an array that hold a box of class l
LiveOf(bs, l) == {i \in Live(bs) : bs[i].label = l}

\* C28: after applyNMS the array holds the boxes it held, ordered by
\* non-increasing confidence; no two unsuppressed boxes of one class have
\* IoU > 0.2 or centres less than 60 apart; and for each class that entered
\* with an unsuppressed box, a box of that class with the highest confidence
\* among those is unsuppressed, so that of same-class boxes that all overlap
\* the one survivor is the most confident.
C28_NmsStage ==
  vPath = "applyNMS" =>
    /\ SameBoxesReordered(rawBoxes, boxes)
    /\ \A i, j \in 1..Len(boxes) : i < j => boxes[i].confidence >= boxes[j].confidence
    /\ \A i, j \in Live(boxes) :
         (i # j /\ boxes[i].label = boxes[j].label) =>
           ~(IoUOverFifth(boxes[i], boxes[j]) \/ CentresNear(boxes[i], boxes[j]))
    /\ \A l \in Labels :
         LiveOf(rawBoxes, l) # {} =>
           \E k \in LiveOf(boxes, l) :
              \A i \in LiveOf(rawBoxes, l) : boxes[k].confidence >= rawBoxes[i].confidence

\* three overlapping boxes of one class entered with confidences 0.90, 0.80
\* and 0.95, and the one of 0.95 alone is left
C28_Witness ==
  /\ vPath = "applyNMS"
  /\ Len(rawBoxes) = 3 /\ Live(rawBoxes) = {1, 2, 3}
  /\ rawBoxes[1].confidence = 900 /\ rawBoxes[2].confidence = 800
  /\ rawBoxes[3].confidence = 950
  /\ \A i, j \in 1..3 : rawBoxes[i].label = rawBoxes[j].label
  /\ \A i, j \in 1..3 : i # j => IoUOverFifth(rawBoxes[i], rawBoxes[j])
  /\ Live(boxes) = {1} /\ boxes[1].confidence = 950

\* 0.7 * confidence + 0.3 * (area / 1000), times 10000
Composite(b) == 7 * b.confidence + 3 * (b.width * b.height)

\* C29: after keepBestPerClass the array holds the same boxes in the same
\* places and nothing suppressed has come back; each class has at most one
\* unsuppressed box; and for each class that entered with an unsuppressed box
\* the one left is, among that class's unsuppressed boxes that entered, the
\* earliest of those with the greatest composite score.
C29_BestPerClassStage ==
  vPath = "keepBestPerClass" =>
    /\ SameBoxes(rawBoxes, boxes)
    /\ Live(boxes) \subseteq Live(rawBoxes)
    /\ \A l \in Labels :
         /\ Cardinality(LiveOf(boxes, l)) <= 1
         /\ LiveOf(rawBoxes, l) # {} =>
              \E k \in LiveOf(boxes, l) :
                 \A i \in LiveOf(rawBoxes, l) :
                    /\ Composite(boxes[k]) >= Composite(rawBoxes[i])
                    /\ Composite(boxes[k]) = Composite(rawBoxes[i]) => k <= i

\* of three boxes of one class the survivor is neither the first nor the most
\* confident: its area outweighs the confidence of the others
C29_Witness ==
  /\ vPath = "keepBestPerClass"
  /\ Len(rawBoxes) = 3 /\ Live(rawBoxes) = {1, 2, 3}
  /\ \A i \in 1..3 : rawBoxes[i].label = CAN3
  /\ \E k \in {2, 3} :
       /\ Live(boxes) = {k}
       /\ \E i \in 1..3 : rawBoxes[i].confidence > rawBoxes[k].confidence

\* C30: the four stages run again on an array that holds one survivor of a
\* run of the four stages, and nothing else, leave that array as it is: the
\* one box, unchanged and unsuppressed.
C30_FilterIdempotent ==
  vPath = "refiltered" =>
    /\ Len(rawBoxes) = 1 /\ ~rawBoxes[1].suppressed
    /\ boxes = rawBoxes

\* a surviving can box of confidence 0.70 has been filtered again on its own
C30_Witness ==
  /\ vPath = "refiltered"
  /\ boxes = rawBoxes /\ Len(boxes) = 1
  /\ boxes[1].label = CAN3 /\ boxes[1].confidence = 700
  /\ Live(boxes) = {1}



\* ---------------------------------------------------------------------------
\* Two votes out of three
\* ---------------------------------------------------------------------------
\* a tally of three votes, two of them for class i and one for another class
TwoOfThree(i) ==
  /\ votesCan + votesGlass + votesBottle = MAX_VOTES
  /\ Counts[i] = MAJORITY_VOTES

\* the bin is taken by one of the three majority tests of calculateBin
ByMajorityRule == \E i \in 1..3 : Counts[i] >= MAJORITY_VOTES

\* C31 as stated: when one class holds 2 of the 3 recorded votes, the single
\* dissenting vote keeps the majority rule from choosing the bin, which is
\* left to the comparison of the confidence sums.
C31_DissentForcesTieBreak ==
  (state = "DECIDE" /\ \E i \in 1..3 : TwoOfThree(i)) => ~ByMajorityRule

\* C31 as the code has it: with MAJORITY_VOTES = 2 and MAX_VOTES = 3, a cycle
\* in which one class holds 2 of the 3 recorded votes is always decided by the
\* majority rule: DECIDE announces the bin of that class and SORT sorts to it,
\* whatever the dissenting vote.
C31_TwoOfThreeIsMajority ==
  [][\A i \in 1..3 :
       /\ (state = "DECIDE" /\ TwoOfThree(i) /\ state' = "SORT") =>
            ByMajorityRule /\ ShownBin(lcd') = i
       /\ (state = "SORT" /\ TwoOfThree(i) /\ state' = "IDLE") =>
            cycSorts' = Append(cycSorts, <<i, i>>)]_vars

\* a cycle with one vote for a can and then two for glass has been sorted
C31_Witness ==
  /\ state = "IDLE" /\ cycDecided
  /\ votesCan = 1 /\ votesGlass = 2 /\ votesBottle = 0
  /\ cycSorts = <<<<2, 2>>>>



\* ---------------------------------------------------------------------------
\* Late replies
\* The Sort Controller with up to LinkPending unanswered INFER lines told
\* apart.  The Vision Controller takes the INFER lines in the order they were
\* sent and writes one line for each, so espCmd counts the requests that have
\* no answer yet, the most recent one last.
\* ---------------------------------------------------------------------------
RequestLink == RequestAt(RequestTimes, LinkPending)

NextLink ==
  \/ Idle \/ Detect \/ RequestLink \/ Wait \/ Reposition \/ Decide \/ Sort \/ Error
  \/ EspReply \/ EspDrop

SpecLink == Init /\ [][NextLink]_vars

\* C32: every reply consumed in WAIT answers the most recent INFER request; a
\* reply to an earlier request that arrives late is never recorded as a vote
\* or counted as a non-detection.  A line consumed while an INFER is still
\* unanswered answers an earlier request, so no line is consumed in WAIT
\* while the most recent INFER is pending.
C32_RepliesAnswerLatestRequest ==
  [][(AcceptsReply \/ RejectsReply) => espCmd = 0]_vars



\* ---------------------------------------------------------------------------
\* The monitor port
\* ---------------------------------------------------------------------------
\* C33: after boot the Vision Controller writes a reply line to the inference
\* link only in answer to an INFER command read from that link; a command
\* typed on the USB monitor port never puts a line on the link.
C33_LinkAnswersLinkInferOnly ==
  tx2 # <<>> => (txBy = "link" /\ vPath # "ignored")



\* ---------------------------------------------------------------------------
\* Requests per cycle
\* The Sort Controller on a link whose accepted replies all carry a label of
\* the fixed class set: the lines that parseResponse accepts with any other
\* label are left out of what the link delivers.
\* ---------------------------------------------------------------------------
KnownLines ==
  {l \in LinkLines :
     LET reply == parseResponse(ReadLine(l).buffer)
     IN reply.ok => reply.class \in Labels}

EspReplyKnown == EspDeliver(KnownLines)

NextKnown == runStateMachine \/ EspReplyKnown \/ EspDrop

SpecKnown == Init /\ [][NextKnown]_vars

\* C34: in a sort cycle whose accepted replies all carry a label of the fixed
\* class set, at most MAX_VOTES + MAX_REPOSITIONS (= 5) INFER requests are
\* sent between the presence confirmation in DETECT and the end of the cycle,
\* however votes and non-detections interleave.
C34_RequestsPerCycle ==
  cycRequests <= MAX_VOTES + MAX_REPOSITIONS

\* a cycle of five requests has been sorted: two votes for different classes
\* and two non-detections, each followed by a reposition, came before the
\* third vote
C34_Witness ==
  /\ state = "IDLE" /\ cycSorts # <<>>
  /\ cycRequests = MAX_VOTES + MAX_REPOSITIONS
  /\ repositionAttempts = MAX_REPOSITIONS
  /\ votesCan = 1 /\ votesGlass = 1 /\ votesBottle = 1



\* ---------------------------------------------------------------------------
\* How a cycle ends
\* ---------------------------------------------------------------------------
\* the pass leaves the cycle and returns to IDLE
EndsCycle == state # "IDLE" /\ state' = "IDLE"

\* the pass calls sortToBin
CallsSort == cycSorts' # cycSorts /\ cycSorts' # <<>>

\* C35: a sort cycle returns to IDLE without a sortToBin call only through
\* the two object-disappeared aborts (DETECT finding no object; a
\* non-detection in WAIT with repositionAttempts = 0 and no object present).
\* Every other cycle, in particular every cycle that has entered REPOSITION,
\* calls sortToBin exactly once before it returns to IDLE, and sortToBin is
\* called only in SORT and ERROR.  (In DETECT repositionAttempts still holds
\* the count of the cycle before; from REQUEST on it is this cycle's.)
C35_AbortOrSortOnce ==
  [][/\ EndsCycle =>
          \/ /\ cycSorts' = <<>>
             /\ \/ state = "DETECT"
                \/ state = "WAIT" /\ RejectsReply /\ repositionAttempts = 0
          \/ /\ Len(cycSorts') = 1
             /\ state \in {"SORT", "ERROR"}
     /\ (EndsCycle /\ state # "DETECT" /\ repositionAttempts > 0) =>
          Len(cycSorts') = 1
     /\ CallsSort =>
          /\ state \in {"SORT", "ERROR"}
          /\ cycSorts' = Append(cycSorts, cycSorts'[Len(cycSorts')])
          /\ cycSorts = <<>>]_vars

\* a cycle that repositioned twice and then gave up has been sorted, once
C35_Witness ==
  /\ state = "IDLE" /\ repositionAttempts = MAX_REPOSITIONS
  /\ cycDecided /\ ~cycTimedOut
  /\ Len(cycSorts) = 1 /\ cycSorts[1][1] = 4



\* ---------------------------------------------------------------------------
\* Tallies that reach DECIDE
\* ---------------------------------------------------------------------------
\* the bin comes out of the comparison of the confidence sums: no majority
\* test of calculateBin fires and the tally is not empty
ByTieBreak ==
  /\ \A i \in 1..3 : Counts[i] < MAJORITY_VOTES
  /\ votesCan + votesGlass + votesBottle > 0

\* C36: whenever DECIDE is entered the tally is all-zero, or exactly one class
\* has 2 votes and the total is 2 or 3, or each of the three classes has one
\* vote.  Hence two classes never both reach the majority threshold, and the
\* confidence sums decide the bin only for the one-vote-each tally.
C36_DecideTallies ==
  state = "DECIDE" =>
    /\ \/ Counts = <<0, 0, 0>>
       \/ /\ Cardinality({i \in 1..3 : Counts[i] = 2}) = 1
          /\ \A i \in 1..3 : Counts[i] <= 2
          /\ votesCan + votesGlass + votesBottle \in {2, 3}
       \/ Counts = <<1, 1, 1>>
    /\ Cardinality({i \in 1..3 : Counts[i] >= MAJORITY_VOTES}) <= 1
    /\ ByTieBreak => Counts = <<1, 1, 1>>

\* DECIDE has been entered with one vote for each class
C36_Witness ==
  state = "DECIDE" /\ Counts = <<1, 1, 1>> /\ cycRequests >= MAX_VOTES



\* ---------------------------------------------------------------------------
\* Range of the vote counters
\* ---------------------------------------------------------------------------
\* C37: in every reachable state of the Sort Controller each class vote count
\* is at most MAJORITY_VOTES (2) and the total vote count is at most MAX_VOTES
\* (3), so the 8-bit vote counters never wrap.
C37_VoteCountsBounded ==
  /\ votesCan <= MAJORITY_VOTES
  /\ votesGlass <= MAJORITY_VOTES
  /\ votesBottle <= MAJORITY_VOTES
  /\ votesCan + votesGlass + votesBottle <= MAX_VOTES
  /\ votesCan + votesGlass + votesBottle < 256

\* the third vote of a cycle has just been recorded and gives the bottle
\* class its second vote
C37_Witness ==
  /\ state = "DECIDE" /\ parsed.ok /\ parsed.class = BOTTLE3
  /\ votesBottle = MAJORITY_VOTES
  /\ votesCan + votesGlass + votesBottle = MAX_VOTES



\* ---------------------------------------------------------------------------
\* Actuators at rest
\* ---------------------------------------------------------------------------
\* C38: whenever the Sort Controller is in IDLE the primary actuator is at its
\* home angle (0) and the secondary actuator is at its home angle (90): after
\* a completed sort, after an ERROR and after either kind of aborted cycle.
C38_IdleAtHome ==
  state = "IDLE" => (servo1 = 0 /\ servo2 = 90)

\* IDLE has been reached through ERROR after the second reposition had left
\* the primary actuator at 90 degrees
C38_Witness ==
  /\ state = "IDLE" /\ cycTimedOut /\ repositionAttempts = MAX_REPOSITIONS
  /\ Len(cycSorts) = 1 /\ cycSorts[1][1] = 4
  /\ servo1 = S1_HOME /\ servo2 = S2_HOME



\* ---------------------------------------------------------------------------
\* Votes behind a class bin
\* ---------------------------------------------------------------------------
\* C39: in every reachable DECIDE or SORT state calculateBin returns a class
\* bin (1, 2 or 3) only if that class has at least one recorded vote; in every
\* reachable tally a class has accumulated confidence 0 exactly when it has 0
\* votes, and each recorded vote adds at least MIN_CONFIDENCE to the sum of
\* its class.
C39_ClassBinHasVote ==
  /\ state \in {"DECIDE", "SORT"} => (Bin \in 1..3 => Counts[Bin] >= 1)
  /\ \A i \in 1..3 :
       /\ ConfTotals[i] = 0 <=> Counts[i] = 0
       /\ ConfTotals[i] >= Counts[i] * MIN_CONFIDENCE

\* DECIDE holds one vote for each class and the comparison of the confidence
\* sums gives the glass bin
C39_Witness ==
  /\ state = "DECIDE" /\ Counts = <<1, 1, 1>>
  /\ Bin = 2 /\ confGlass >= MIN_CONFIDENCE /\ confGlass > confCan



\* ---------------------------------------------------------------------------
\* Range of the non-detection counters
\* ---------------------------------------------------------------------------
\* C40: in every reachable state repositionAttempts is at most
\* MAX_REPOSITIONS (2) and consecutiveNones is at most MAX_REPOSITIONS + 1
\* (3); REPOSITION is entered at most twice per sort cycle: it is entered only
\* with repositionAttempts below MAX_REPOSITIONS, every REPOSITION pass adds
\* one to repositionAttempts, and nothing lowers it before the cycle ends.
C40_NonDetectionCounters ==
  /\ [](/\ repositionAttempts <= MAX_REPOSITIONS
        /\ consecutiveNones <= MAX_REPOSITIONS + 1)
  /\ [][/\ (state # "REPOSITION" /\ state' = "REPOSITION") =>
             repositionAttempts' < MAX_REPOSITIONS
        /\ (state = "REPOSITION" /\ state' # "REPOSITION") =>
             repositionAttempts' = repositionAttempts + 1
        /\ InCycle => repositionAttempts' >= repositionAttempts]_vars

\* the third non-detection in a row, after two repositions, has made the
\* Sort Controller give up
C40_Witness ==
  /\ state = "DECIDE" /\ repositionAttempts = MAX_REPOSITIONS
  /\ consecutiveNones = MAX_REPOSITIONS + 1

====
